---- MODULE Spec2Model ----
(***************************************************************************)
(* A model of the Switcher power-plug client: the Device Session           *)
(* Controller (src/src/control.rs) and the Discovery Listener              *)
(* (src/src/discovery.rs, with the decoder of src/src/device.rs).          *)
(*                                                                         *)
(* Bytes are integers 0..255, byte strings are sequences of bytes, and a   *)
(* Rust index i is the TLA+ index i + 1.  Hex text is a sequence of        *)
(* one-character strings.                                                  *)
(***************************************************************************)
EXTENDS Integers, Sequences, FiniteSets, TLC

VARIABLES
    \* ---- Device Session Controller: one caller, one operation at a time
    op,         \* the public method in progress
    new_name,   \* the argument of set_device_name (UTF-8 bytes)
    phase,      \* position inside turn_on / turn_off
    sub,        \* the connection-level function in progress
    pc,         \* position inside that function
    conns,      \* the TCP connections opened by the operation, in order
    queries,    \* get_status calls made by the operation
    polled,     \* the states the successful get_status calls reported
    status,     \* the DeviceStatus last returned by get_status
    result,     \* what the operation returned
    silent,     \* the peer sends nothing more (no SYN-ACK, data, FIN or RST)
    controller_device_id, \* the device_id the controller was built with
    controller_ip_address, \* the ip_address the controller was built with
    \* ---- Discovery Listener: the caller of discover_network and its task
    dpc,        \* position of the caller inside discover_network
    tpc,        \* position of the spawned receive task
    socket,     \* who owns the UDP socket bound to 0.0.0.0:10002
    rxq,        \* datagrams queued in the socket, oldest first
    sent,       \* datagrams broadcast during this listen window
    device,     \* the record the task decoded and has not yet stored
    devices,    \* discovered_devices: the HashMap behind the mutex
    lock,       \* who holds the mutex
    aborted,    \* handle.abort() was called on the task
    seen,       \* every record the task decoded in this window, in order
    binds,      \* UdpSocket::bind calls made by this call
    spawned,    \* this call spawned a receive task
    slept,      \* this call waited for the duration
    dresult,    \* what discover_network returned
    found,      \* the records discover_network returned
    prior,      \* how the task of the window before this one had ended
    \* ---- Pure functions: one application of a function to an input
    fn,         \* the function applied ("none" before the application)
    argof,      \* the function the input was drawn for
    arg,        \* the input
    out,        \* what it returned
    \* ---- The system clock
    clock,      \* seconds since the epoch
    \* ---- Concurrent calls of connection-level functions on one controller
    calls,      \* per call slot: the function, its position and its locals
    last_session, \* the session id the most recent login of any call returned
    \* ---- The persisted configuration and the command line program using it
    file,       \* switcher_config.json next to the executable
    before,     \* the file as it was when the command in progress started
    cmd,        \* the command in progress
    wpc,        \* position of the command around its network operation
    use_cache,  \* the use_cache the SwitcherDiscovery was built with
    all_devices, \* the fresh cached records discover_with_cache loaded
    final_devices, \* the records discover_with_cache returned
    wresult,    \* what the command's operation returned
    \* ---- A PairingConfig and a DeviceCache in memory and the calls on them
    pairing_config, \* the PairingConfig
    device_cache,   \* the DeviceCache
    before_call     \* the object before the last call on it, and the call before

cvars == <<op, new_name, phase, sub, pc, conns, queries, polled, status, result, silent>>
dvars == <<dpc, tpc, socket, rxq, sent, device, devices, lock, aborted, seen,
           binds, spawned, slept, dresult, found, prior>>
pvars == <<fn, argof, arg, out>>
nvars == <<calls, last_session>>
svars == <<file, before, cmd, wpc, use_cache, use_cache, all_devices, final_devices, wresult>>
ovars == <<pairing_config, device_cache, before_call>>
\* The fields of the controller, set by SwitcherController::new.
kvars == <<controller_device_id, controller_ip_address>>
vars == <<cvars, kvars, dvars, pvars, clock, nvars, svars, ovars>>
\* What the controller's steps and the listener's steps leave alone.
notc == <<kvars, dvars, pvars, clock, nvars, svars, ovars>>
notd == <<cvars, kvars, pvars, clock, nvars, svars, ovars>>

(***************************************************************************)
(* Bounds of the model                                                     *)
(***************************************************************************)
\* Datagrams that arrive at the socket during one listen window.
MaxDatagrams == 3
MaxTicks == 1
MaxCalls == 2

\* What the clock reads when the program starts (seconds since the epoch),
\* and the device id the controller was built with.
BootTime == 1761804288
DeviceId == <<"a", "1", "b", "2", "c", "3">>
DeviceIp == "10.0.0.1"

(***************************************************************************)
(* Constants of control.rs                                                 *)
(***************************************************************************)
MIN_LOGIN_RESPONSE_LEN == 20
DEVICE_STATE_BYTE_POS == 75
POWER_BYTE_POS == 77
MIN_STATUS_RESPONSE_LEN == 50
MIN_RENAME_RESPONSE_LEN == 20
MIN_NAME_LEN == 2
MAX_NAME_LEN == 32
NAME_HEX_LEN == 64

(***************************************************************************)
(* Error values.  The code returns Box<dyn Error>: a message for the       *)
(* errors it raises itself, std::io::Error for socket failures and         *)
(* tokio's Elapsed for a fired timeout.                                    *)
(***************************************************************************)
ErrIo == "io::Error"
ErrElapsed == "deadline has elapsed"
ErrLoginTooShort == "Login response too short"
ErrNoOrInvalidDevice == "Device did not respond or invalid device ID"
ErrNoResponse == "Device did not respond to name change command"
ErrNotConfirmedOn == "Command sent but device did not turn ON (invalid device ID?)"
ErrNotConfirmedOff == "Command sent but device did not turn OFF (invalid device ID?)"
ErrInvalidNameLength(length) ==
    "Device name length must be between 2 and 32 characters, got " \o ToString(length)

(***************************************************************************)
(* Byte and hex helpers                                                    *)
(***************************************************************************)
Repeat(x, n) == [i \in 1..n |-> x]

HexDigits == <<"0", "1", "2", "3", "4", "5", "6", "7",
               "8", "9", "a", "b", "c", "d", "e", "f">>

HexDigitsUpper == <<"0", "1", "2", "3", "4", "5", "6", "7",
                    "8", "9", "A", "B", "C", "D", "E", "F">>

\* hex::encode: two lower-case digits per byte, high nibble first.
hex_encode(bytes) ==
    [i \in 1..(2 * Len(bytes)) |->
        LET b == bytes[(i + 1) \div 2]
        IN  IF i % 2 = 1 THEN HexDigits[(b \div 16) + 1] ELSE HexDigits[(b % 16) + 1]]

\* &buf[from..to] of Rust: bytes from (inclusive) to to (exclusive), 0-based.
Slice(s, from, to) == SubSeq(s, from + 1, to)

\* The value of one hex digit.
HexVal(c) == (CHOOSE i \in 1..16 : HexDigits[i] = c) - 1

\* hex::decode of well-formed lower-case hex text.
hex_decode(hex) ==
    [i \in 1..(Len(hex) \div 2) |-> 16 * HexVal(hex[2 * i - 1]) + HexVal(hex[2 * i])]

(***************************************************************************)
(* Packet Codec & Signer (control.rs 268-371)                              *)
(***************************************************************************)
\* current_timestamp_hex: format!("{:08x}", seconds), for seconds < 2^31.
current_timestamp_hex(seconds) ==
    [i \in 1..8 |-> HexDigits[((seconds \div (16 ^ (8 - i))) % 16) + 1]]

build_login_packet(timestamp) ==
    <<"f", "e", "f", "0", "5", "2", "0", "0", "0", "2", "3", "2",
      "a", "1", "0", "0", "0", "0", "0", "0", "0", "0", "0", "0",
      "3", "4", "0", "0", "0", "1", "0", "0", "0", "0", "0", "0",
      "0", "0", "0", "0", "0", "0", "0", "0", "0", "0", "0", "0">>
    \o timestamp
    \o <<"0", "0", "0", "0", "0", "0", "0", "0", "0", "0", "0", "0",
      "0", "0", "0", "0", "0", "0", "0", "0", "f", "0", "f", "e",
      "0", "0">>
    \o Repeat("0", 72)
    \o <<"0", "0">>

build_control_packet(session_id, timestamp, device_id, command) ==
    <<"f", "e", "f", "0", "5", "d", "0", "0", "0", "2", "3", "2",
      "0", "1", "0", "2">>
    \o session_id
    \o <<"3", "4", "0", "0", "0", "1", "0", "0", "0", "0", "0", "0",
      "0", "0", "0", "0", "0", "0", "0", "0", "0", "0", "0", "0">>
    \o timestamp
    \o <<"0", "0", "0", "0", "0", "0", "0", "0", "0", "0", "0", "0",
      "0", "0", "0", "0", "0", "0", "0", "0", "f", "0", "f", "e">>
    \o device_id
    \o Repeat("0", 72)
    \o <<"0", "0", "0", "1", "0", "6", "0", "0", "0">>
    \o command
    \o <<"0", "0">>
    \o <<"0", "0", "0", "0", "0", "0", "0", "0">>

build_get_state_packet_unpadded(session_id, timestamp, device_id) ==
    <<"f", "e", "f", "0", "3", "0", "0", "0", "0", "2", "3", "2",
      "0", "1", "0", "3">>
    \o session_id
    \o <<"3", "4", "0", "0", "0", "1", "0", "0", "0", "0", "0", "0",
      "0", "0", "0", "0", "0", "0", "0", "0", "0", "0", "0", "0">>
    \o timestamp
    \o <<"0", "0", "0", "0", "0", "0", "0", "0", "0", "0", "0", "0",
      "0", "0", "0", "0", "0", "0", "0", "0", "f", "0", "f", "e">>
    \o device_id

build_get_state_packet(session_id, timestamp, device_id) ==
    <<"f", "e", "f", "0", "3", "0", "0", "0", "0", "2", "3", "2",
      "0", "1", "0", "3">>
    \o session_id
    \o <<"3", "4", "0", "0", "0", "1", "0", "0", "0", "0", "0", "0",
      "0", "0", "0", "0", "0", "0", "0", "0", "0", "0", "0", "0">>
    \o timestamp
    \o <<"0", "0", "0", "0", "0", "0", "0", "0", "0", "0", "0", "0",
      "0", "0", "0", "0", "0", "0", "0", "0", "f", "0", "f", "e">>
    \o device_id
    \o <<"0", "0">>

\* build_set_name_packet once the name is encoded (name_hex).
build_set_name_packet(session_id, timestamp, device_id, name_hex) ==
    <<"f", "e", "f", "0", "7", "4", "0", "0", "0", "2", "3", "2",
      "0", "2", "0", "2">>
    \o session_id
    \o <<"3", "4", "0", "0", "0", "1", "0", "0", "0", "0", "0", "0",
      "0", "0", "0", "0", "0", "0", "0", "0", "0", "0", "0", "0">>
    \o timestamp
    \o <<"0", "0", "0", "0", "0", "0", "0", "0", "0", "0", "0", "0",
      "0", "0", "0", "0", "0", "0", "0", "0", "f", "0", "f", "e">>
    \o device_id
    \o Repeat("0", 72)
    \o <<"0", "0">>
    \o name_hex

\* a ^ b
BitXor[a \in Nat, b \in Nat] ==
    IF a = 0 THEN b
    ELSE IF b = 0 THEN a
    ELSE (((a % 2) + (b % 2)) % 2) + 2 * BitXor[a \div 2, b \div 2]

\* CRC_16_XMODEM of the crc crate: width 16, poly 0x1021, no reflection,
\* xorout 0; its init is replaced by digest_with_initial(0x1021).
CRC_POLY == 4129
CRC_INITIAL == 4129

\* The register after n more message bits: shift left, and xor the
\* polynomial in when the bit shifted out was 1.
crc_shifts[crc \in Nat, n \in Nat] ==
    IF n = 0 THEN crc
    ELSE crc_shifts[IF crc >= 32768
                    THEN BitXor[(2 * crc) % 65536, CRC_POLY]
                    ELSE (2 * crc) % 65536,
                    n - 1]

\* The lookup table of the crc crate: entry i is the register that eight
\* shifts make of i << 8.
crc16_table == [i \in 0..255 |-> crc_shifts[256 * i, 8]]

\* Digest::update for one byte:
\* crc = table[((crc >> 8) ^ byte) & 0xFF] ^ (crc << 8).
crc_update_byte[crc \in Nat, b \in Nat] ==
    BitXor[crc16_table[BitXor[crc \div 256, b]], (crc % 256) * 256]

\* Digest::update: what bytes[lo..hi], taken in order, make of the
\* register (the range is halved to keep the evaluation shallow).
RECURSIVE crc_update(_, _, _)
crc_update(bytes, lo, hi) ==
    [crc \in Nat |->
        IF lo > hi THEN crc
        ELSE IF lo = hi THEN crc_update_byte[crc, bytes[lo]]
        ELSE LET mid == (lo + hi) \div 2
             IN  crc_update(bytes, mid + 1, hi)[crc_update(bytes, lo, mid)[crc]]]

\* digest_with_initial(0x1021), update(bytes), finalize().
crc16(bytes) == crc_update(bytes, 1, Len(bytes))[CRC_INITIAL]

\* hex of (crc as u32).to_be_bytes(), then its characters 6..8 and 4..6:
\* the low byte of the CRC followed by its high byte.
crc_hex_unswapped(crc) ==
    LET hex_crc == hex_encode(<<0, 0, crc \div 256, crc % 256>>)
    IN  Slice(hex_crc, 4, 6) \o Slice(hex_crc, 6, 8)
crc_hex_sliced(crc) ==
    LET hex_crc == hex_encode(<<0, 0, crc \div 256, crc % 256>>)
    IN  Slice(hex_crc, 6, 8) \o Slice(hex_crc, 4, 6)

\* hex::decode returns Ok: the text has an even number of characters, all of
\* them hex digits of either case.  sign_packet unwraps the result
\* (control.rs 345), so it panics on any other text.
hex_decode_ok(hex) ==
    \A text \in {hex} :
        /\ Len(text) % 2 = 0
        /\ {text[i] : i \in 1..Len(text)} \subseteq
              {HexDigits[k] : k \in 1..16} \cup {HexDigitsUpper[k] : k \in 1..16}

\* sign_packet (control.rs 342-371)
sign_packet_one_crc(hex_packet) ==
    LET binary_packet == hex_decode(hex_packet)
        packet_crc == crc16(binary_packet)
        hex_packet_crc_sliced == crc_hex_sliced(packet_crc)
    IN  hex_packet \o hex_packet_crc_sliced
sign_packet(hex_packet) ==
    LET binary_packet == hex_decode(hex_packet)
        packet_crc == crc16(binary_packet)
        hex_packet_crc_sliced == crc_hex_sliced(packet_crc)
        key_hex == hex_packet_crc_sliced
                   \o [i \in 1..64 |-> IF i % 2 = 1 THEN "3" ELSE "0"]
        binary_key == hex_decode(key_hex)
        key_crc == crc16(binary_key)
        hex_key_crc_sliced == crc_hex_sliced(key_crc)
    IN  hex_packet \o hex_packet_crc_sliced \o hex_key_crc_sliced

(***************************************************************************)
(* Pure parts of the controller                                            *)
(***************************************************************************)
\* string_to_hexadecimal_device_name: the length check, then hex and padding.
string_to_hexadecimal_device_name_upto_33(name) ==
    LET length == Len(name)
    IN  IF length < MIN_NAME_LEN \/ length > MAX_NAME_LEN + 1
        THEN [ok |-> FALSE, err |-> ErrInvalidNameLength(length)]
        ELSE LET hex_name == hex_encode(name)
                 zeros_needed == NAME_HEX_LEN - Len(hex_name)
             IN  [ok |-> TRUE,
                  hex |-> hex_name \o Repeat("0", 2 * (zeros_needed \div 2))]
string_to_hexadecimal_device_name(name) ==
    LET length == Len(name)
    IN  IF length < MIN_NAME_LEN \/ length > MAX_NAME_LEN
        THEN [ok |-> FALSE, err |-> ErrInvalidNameLength(length)]
        ELSE LET hex_name == hex_encode(name)
                 zeros_needed == NAME_HEX_LEN - Len(hex_name)
             IN  [ok |-> TRUE,
                  hex |-> hex_name \o Repeat("0", 2 * (zeros_needed \div 2))]

\* login: the check of the length read (control.rs 259-261).
LoginLengthOkNoCheck(len) == TRUE
LoginLengthOk(len) == ~(len < MIN_LOGIN_RESPONSE_LEN)

\* The 1024-byte zeroed buffer a read fills from its start: byte i (0-based).
BufByte(response, i) == IF i < Len(response) THEN response[i + 1] ELSE 0

\* login: session_id = hex::encode(&response[16..20]).
session_id_of(response) == hex_encode([k \in 1..4 |-> BufByte(response, 15 + k)])

\* get_status: the state byte (control.rs 188-196).
DecodeStateUnknownWhenAbsent(response) ==
    IF Len(response) > DEVICE_STATE_BYTE_POS
    THEN CASE response[DEVICE_STATE_BYTE_POS + 1] = 1 -> "On"
           [] response[DEVICE_STATE_BYTE_POS + 1] = 0 -> "Off"
           [] OTHER -> "Unknown"
    ELSE "Unknown"
DecodeStateNeedsPower(response) ==
    IF Len(response) > POWER_BYTE_POS + 1
    THEN CASE response[DEVICE_STATE_BYTE_POS + 1] = 1 -> "On"
           [] response[DEVICE_STATE_BYTE_POS + 1] = 0 -> "Off"
           [] OTHER -> "Unknown"
    ELSE "Off"
DecodeState(response) ==
    IF Len(response) > DEVICE_STATE_BYTE_POS
    THEN CASE response[DEVICE_STATE_BYTE_POS + 1] = 1 -> "On"
           [] response[DEVICE_STATE_BYTE_POS + 1] = 0 -> "Off"
           [] OTHER -> "Unknown"
    ELSE "Off"

\* get_status: the power field, u16::from_le_bytes (control.rs 198-202).
DecodePowerBigEndian(response) ==
    IF Len(response) > POWER_BYTE_POS + 1
    THEN 256 * response[POWER_BYTE_POS + 1] + response[POWER_BYTE_POS + 2]
    ELSE 0
DecodePower(response) ==
    IF Len(response) > POWER_BYTE_POS + 1
    THEN response[POWER_BYTE_POS + 1] + 256 * response[POWER_BYTE_POS + 2]
    ELSE 0

\* get_status: what it returns for the bytes read (control.rs 180-207).
StatusOfAnyLength(response) ==
    [ok |-> TRUE,
     status |-> [state |-> DecodeState(response),
                 power_consumption |-> DecodePower(response)]]
StatusOf(response) ==
    IF Len(response) < MIN_STATUS_RESPONSE_LEN
    THEN [ok |-> FALSE, err |-> ErrNoOrInvalidDevice]
    ELSE [ok |-> TRUE,
          status |-> [state |-> DecodeState(response),
                      power_consumption |-> DecodePower(response)]]

\* The command digit of turn_on ("1") and turn_off ("0").
Command(o) == IF o = "turn_on" THEN <<"1">> ELSE <<"0">>

\* The timestamp of the command packet: the one login returned, which it
\* took before writing the login packet (control.rs 225-231, 165-171,
\* 117-119); the clock is not read again.
fresh_timestamp(login_timestamp, now) == current_timestamp_hex(now)
command_timestamp(login_timestamp, now) == login_timestamp

\* turn_on / turn_off: the function called when a sleep has ended, the
\* settle delay (ph = "verify_sleep") or the retry delay: get_status both
\* times (control.rs 46 and 55, 93 and 102).
resend_on_retry(ph) ==
    IF ph = "verify_sleep" THEN "get_status" ELSE "send_control_command"
call_after_sleep(ph) ==
    "get_status"

\* The state turn_on / turn_off waits for.
Desired(o) == IF o = "turn_on" THEN "On" ELSE "Off"

NotConfirmed(o) == IF o = "turn_on" THEN ErrNotConfirmedOn ELSE ErrNotConfirmedOff

\* turn_on / turn_off: what follows a status read in phase ph (poll1 or
\* poll2): return Ok, sleep and poll once more, or return the error.
VerifyKeepPolling(o, ph, state) ==
    IF state = Desired(o) THEN "Ok" ELSE "retry"
VerifyNoRetry(o, ph, state) ==
    IF state = Desired(o) THEN "Ok" ELSE NotConfirmed(o)
VerifySecondAlwaysOk(o, ph, state) ==
    IF state = Desired(o) \/ ph = "poll2" THEN "Ok" ELSE "retry"
Verify(o, ph, state) ==
    IF state = Desired(o) THEN "Ok"
    ELSE IF ph = "poll1" THEN "retry"
    ELSE NotConfirmed(o)

(***************************************************************************)
(* The environment of the controller: what a device may answer             *)
(***************************************************************************)
\* A login reply of n bytes whose bytes 16..20 are sid (when it has them).
LoginReply(n, sid) ==
    [i \in 1..n |-> IF i > 16 /\ i <= 20 THEN sid[i - 16] ELSE 0]

LoginResponses ==
    { LoginReply(0, <<0, 0, 0, 0>>),
      LoginReply(19, <<0, 0, 0, 0>>),
      LoginReply(20, <<1, 2, 3, 4>>),
      LoginReply(24, <<171, 205, 239, 16>>) }

\* A command reply of n bytes with state byte s and power bytes lo, hi.
CommandReply(n, s, lo, hi) ==
    [i \in 1..n |-> CASE i = DEVICE_STATE_BYTE_POS + 1 -> s
                      [] i = POWER_BYTE_POS + 1 -> lo
                      [] i = POWER_BYTE_POS + 2 -> hi
                      [] OTHER -> 0]

CommandResponses ==
    { CommandReply(n, s, p[1], p[2]) :
        n \in {0, 19, 20, 49, 50, 76, 78, 79, 100},
        s \in {0, 1, 2},
        p \in {<<0, 0>>, <<52, 18>>} }

NameInputs ==
    { <<>>, <<65>>, <<65, 66>>, Repeat(97, 32), Repeat(97, 33) }

NoStatus == [state |-> "none", power_consumption |-> 0]

\* A connection just opened by a function that calls login next: login
\* takes its timestamp before it writes.  login_packet and packet are the
\* signed hex of what was written, sent_at is what the clock read when
\* packet was built, reply_len the length of the reply read (-1: none) and
\* reply its bytes.
NewConn(kind, now) ==
    [kind |-> kind, open |-> TRUE, loginWritten |-> FALSE, loginLen |-> -1,
     loginTimedOut |-> FALSE, session_id |-> <<>>, cmdWritten |-> FALSE,
     timestamp |-> current_timestamp_hex(now), login_packet |-> <<>>,
     packet |-> <<>>, sent_at |-> -1, reply_len |-> -1, reply |-> <<>>]

\* The connection the function in progress is using.
Cur == conns[Len(conns)]

\* The stream is dropped when the function that opened it returns.
CloseLast(cs) ==
    IF cs = <<>> THEN cs ELSE [cs EXCEPT ![Len(cs)].open = FALSE]

KindOf(s) ==
    CASE s = "send_control_command" -> "control"
      [] s = "get_status" -> "status"
      [] OTHER -> "rename"

(***************************************************************************)
(* Init                                                                    *)
(***************************************************************************)
InitOperation ==
    /\ op = "none"
    /\ new_name = <<>>
    /\ phase = "none"
    /\ sub = "none"
    /\ pc = "Idle"
    /\ conns = <<>>
    /\ queries = 0
    /\ polled = <<>>
    /\ status = NoStatus
    /\ result = "none"
    /\ silent = FALSE

\* SwitcherController::new(ip_address, device_id) with the device id of the
\* plug.
InitController ==
    /\ InitOperation
    /\ controller_device_id = DeviceId
    /\ controller_ip_address = DeviceIp

InitDiscovery ==
    /\ dpc = "Idle"
    /\ tpc = "none"
    /\ socket = "none"
    /\ rxq = <<>>
    /\ sent = 0
    /\ device = <<>>
    /\ devices = {}
    /\ lock = "none"
    /\ aborted = FALSE
    /\ seen = <<>>
    /\ binds = 0
    /\ spawned = FALSE
    /\ slept = FALSE
    /\ dresult = "none"
    /\ found = {}
    /\ prior = "none"

InitPure ==
    /\ fn = "none"
    /\ argof = "none"
    /\ arg = <<>>
    /\ out = <<>>

\* A call slot: no call yet, or the call in it and its locals.  response is
\* the login reply read on the call's connection, packet the signed hex of
\* the command packet written on it.
IdleCall ==
    [f |-> "none", pc |-> "Idle", timestamp |-> <<>>, response |-> <<>>,
     session_id |-> <<>>, packet |-> <<>>, result |-> "none"]

InitCalls ==
    /\ calls = [i \in 1..MaxCalls |-> IdleCall]
    /\ last_session = <<>>

\* Option: None, or Some(value).
None == [some |-> FALSE]
Some(value) == [some |-> TRUE, value |-> value]

\* env!("CARGO_PKG_VERSION"): the version of the program that runs.
CARGO_PKG_VERSION == "current"

\* UnifiedConfig::new
UnifiedConfigNew == [cache |-> None, pairing |-> None, version |-> CARGO_PKG_VERSION]

\* switcher_config.json: absent, or present with a content that parses as a
\* UnifiedConfig (json) or does not.
NoFile == [exists |-> FALSE, json |-> FALSE, config |-> UnifiedConfigNew]
FileOf(config) == [exists |-> TRUE, json |-> TRUE, config |-> config]
Garbage == [exists |-> TRUE, json |-> FALSE, config |-> UnifiedConfigNew]

\* No command has started: the process holds nothing of the store.
NoCommand ==
    /\ cmd = "none"
    /\ wpc = "none"
    /\ before = NoFile
    /\ all_devices = {}
    /\ final_devices = {}
    /\ wresult = "none"

\* SwitcherDiscovery::without_cache(): use_cache is false and there is no
\* cache manager.
InitStore ==
    /\ file = NoFile
    /\ use_cache = FALSE
    /\ NoCommand

\* DeviceCache::new, PairingConfig::new
DeviceCacheNew(now) == [devices |-> {}, last_updated |-> now]
PairingConfigNew(now) == [devices |-> {}, aliases |-> {}, last_updated |-> now]

\* Both objects as new() makes them when the program starts.
InitObjects ==
    /\ pairing_config = PairingConfigNew(BootTime)
    /\ device_cache = DeviceCacheNew(BootTime)
    /\ before_call = [object |-> <<>>, previous |-> <<>>]

Init ==
    /\ InitController /\ InitDiscovery /\ InitPure /\ InitCalls /\ InitStore
    /\ InitObjects
    /\ clock = BootTime

(***************************************************************************)
(* Device Session Controller                                               *)
(***************************************************************************)
\* The function in progress returns r (and st, for get_status) to its
\* caller, which runs on to its next await or to its own return.
\* cs is the list of connections as the function leaves it.
SubReturn(cs, r, st) ==
    /\ conns' = CloseLast(cs)
    /\ IF op \in {"turn_on", "turn_off"}
       THEN IF r # "Ok"
            THEN /\ pc' = "Failed"
                 /\ result' = r
                 /\ UNCHANGED <<kvars, phase, polled, status>>
            ELSE IF sub = "send_control_command"
            THEN /\ pc' = "Sleeping"
                 /\ phase' = "verify_sleep"
                 /\ UNCHANGED <<kvars, result, polled, status>>
            ELSE LET v == Verify(op, phase, st.state)
                 IN  /\ status' = st
                     /\ polled' = Append(polled, st.state)
                     /\ IF v = "retry"
                        THEN /\ pc' = "Sleeping"
                             /\ phase' = "retry_sleep"
                             /\ UNCHANGED result
                        ELSE /\ pc' = IF v = "Ok" THEN "Done" ELSE "Failed"
                             /\ result' = v
                             /\ UNCHANGED phase
       ELSE /\ pc' = IF r = "Ok" THEN "Done" ELSE "Failed"
            /\ result' = r
            /\ status' = st
            /\ polled' = IF r = "Ok" /\ sub = "get_status"
                         THEN Append(polled, st.state) ELSE polled
            /\ UNCHANGED phase
    /\ UNCHANGED <<notc, op, new_name, sub, queries, silent>>

\* The caller invokes a public method of the controller.
Invoke(o, name, quiet) ==
    /\ pc \in {"Idle", "Done", "Failed"}
    /\ op' = o
    /\ new_name' = name
    /\ phase' = IF o \in {"turn_on", "turn_off"} THEN "send" ELSE "none"
    /\ sub' = IF o \in {"turn_on", "turn_off"} THEN "send_control_command" ELSE o
    /\ pc' = "Connecting"
    /\ conns' = <<>>
    /\ queries' = IF o = "get_status" THEN 1 ELSE 0
    /\ polled' = <<>>
    /\ status' = NoStatus
    /\ result' = "none"
    /\ silent' = quiet

StartOp(o, name, quiet) ==
    /\ Invoke(o, name, quiet)
    /\ UNCHANGED notc

\* TcpStream::connect completes.
ConnectOk ==
    /\ pc = "Connecting"
    /\ ~silent
    /\ conns' = Append(conns, NewConn(KindOf(sub), clock))
    /\ pc' = "LoggingIn"
    /\ UNCHANGED <<notc, op, new_name, phase, sub, queries, polled, status, result, silent>>

\* TcpStream::connect fails (refused, unreachable).
ConnectErr ==
    /\ pc = "Connecting"
    /\ ~silent
    /\ SubReturn(conns, ErrIo, NoStatus)

\* The connect timeout of get_status and set_device_name fires;
\* send_control_command connects without one.
ConnectTimeout ==
    /\ pc = "Connecting"
    /\ sub \in {"get_status", "set_device_name"}
    /\ SubReturn(conns, ErrElapsed, NoStatus)

\* login: the signed login packet is written.
LoginWrite ==
    /\ pc = "LoggingIn"
    /\ ~Cur.loginWritten
    /\ conns' = [conns EXCEPT
                    ![Len(conns)].loginWritten = TRUE,
                    ![Len(conns)].login_packet =
                        sign_packet(build_login_packet(Cur.timestamp))]
    /\ UNCHANGED <<notc, op, new_name, phase, sub, pc, queries, polled, status, result, silent>>

\* login: writing the login packet fails.
LoginWriteErr ==
    /\ pc = "LoggingIn"
    /\ ~Cur.loginWritten
    /\ SubReturn(conns, ErrIo, NoStatus)

\* login: the read returns response (zero bytes when the peer closed).
LoginRead(response) ==
    /\ pc = "LoggingIn"
    /\ Cur.loginWritten
    /\ ~silent
    /\ LET len == Len(response)
           cs == [conns EXCEPT ![Len(conns)].loginLen = len]
       IN  IF LoginLengthOk(len)
           THEN /\ conns' = [cs EXCEPT ![Len(cs)].session_id = session_id_of(response)]
                /\ pc' = "Sending"
                /\ UNCHANGED <<notc, op, new_name, phase, sub, queries, polled, status,
                               result, silent>>
           ELSE SubReturn(cs, ErrLoginTooShort, NoStatus)

\* login: the read fails.
LoginReadErr ==
    /\ pc = "LoggingIn"
    /\ Cur.loginWritten
    /\ ~silent
    /\ SubReturn(conns, ErrIo, NoStatus)

\* login: the login timeout fires before the read returns.
LoginTimeout ==
    /\ pc = "LoggingIn"
    /\ Cur.loginWritten
    /\ SubReturn([conns EXCEPT ![Len(conns)].loginTimedOut = TRUE], ErrElapsed, NoStatus)

\* The command packet the function in progress builds: the rename packet
\* from the encoded name enc.hex.
PacketToSend(enc) ==
    LET timestamp == command_timestamp(Cur.timestamp, clock)
    IN  CASE sub = "send_control_command" ->
                build_control_packet(Cur.session_id, timestamp,
                                     controller_device_id, Command(op))
          [] sub = "get_status" ->
                build_get_state_packet(Cur.session_id, timestamp,
                                       controller_device_id)
          [] OTHER ->
                build_set_name_packet(Cur.session_id, timestamp,
                                      controller_device_id, enc.hex)

\* The command packet is built, signed and written.  The rename packet is
\* built from the encoded name, whose length is checked here.  sign_packet
\* panics on a packet that is not hex text: the call unwinds, the stream is
\* dropped and nothing is returned.
Send ==
    /\ pc = "Sending"
    /\ LET enc == string_to_hexadecimal_device_name(new_name)
           packet == PacketToSend(enc)
       IN  IF sub = "set_device_name" /\ ~enc.ok
           THEN SubReturn(conns, enc.err, NoStatus)
           ELSE IF ~hex_decode_ok(packet)
           THEN /\ pc' = "Panicked"
                /\ conns' = CloseLast(conns)
                /\ UNCHANGED <<notc, op, new_name, phase, sub, queries, polled,
                               status, result, silent>>
           ELSE LET cs == [conns EXCEPT
                              ![Len(conns)].cmdWritten = TRUE,
                              ![Len(conns)].packet = sign_packet(packet),
                              ![Len(conns)].sent_at = clock]
                IN  IF sub = "send_control_command"
                    THEN SubReturn(cs, "Ok", NoStatus)
                    ELSE /\ conns' = cs
                         /\ pc' = "AwaitingResponse"
                         /\ UNCHANGED <<notc, op, new_name, phase, sub, queries, polled,
                                        status, result, silent>>

\* Writing the command packet fails.
SendErr ==
    /\ pc = "Sending"
    /\ LET enc == string_to_hexadecimal_device_name(new_name)
           packet == PacketToSend(enc)
       IN  /\ sub = "set_device_name" => enc.ok
           /\ hex_decode_ok(packet)
    /\ SubReturn(conns, ErrIo, NoStatus)

\* get_status: the read of the reply returns response.
StatusRead(response) ==
    /\ pc = "AwaitingResponse"
    /\ sub = "get_status"
    /\ ~silent
    /\ LET r == StatusOf(response)
           cs == [conns EXCEPT ![Len(conns)].reply_len = Len(response),
                               ![Len(conns)].reply = response]
       IN  IF r.ok THEN SubReturn(cs, "Ok", r.status)
           ELSE SubReturn(cs, r.err, NoStatus)

\* set_device_name: the read of the reply returns response.
RenameRead(response) ==
    /\ pc = "AwaitingResponse"
    /\ sub = "set_device_name"
    /\ ~silent
    /\ LET cs == [conns EXCEPT ![Len(conns)].reply_len = Len(response),
                               ![Len(conns)].reply = response]
       IN  IF Len(response) < MIN_RENAME_RESPONSE_LEN
           THEN SubReturn(cs, ErrNoResponse, NoStatus)
           ELSE /\ conns' = cs
                /\ pc' = "Sleeping"
                /\ UNCHANGED <<notc, op, new_name, phase, sub, queries, polled, status,
                               result, silent>>

\* The read of the reply fails.
ResponseReadErr ==
    /\ pc = "AwaitingResponse"
    /\ ~silent
    /\ SubReturn(conns, ErrIo, NoStatus)

\* A tokio::time::sleep ends: the settle delay or the retry delay of
\* turn_on / turn_off (get_status is called next), or the delay that ends
\* set_device_name.
SleepElapses ==
    /\ pc = "Sleeping"
    /\ IF op = "set_device_name"
       THEN SubReturn(conns, "Ok", NoStatus)
       ELSE /\ phase' = IF phase = "verify_sleep" THEN "poll1" ELSE "poll2"
            /\ sub' = call_after_sleep(phase)
            /\ pc' = "Connecting"
            /\ queries' = queries + 1
            /\ UNCHANGED <<notc, op, new_name, conns, polled, status, result, silent>>

\* The peer stops sending.
GoSilent ==
    /\ pc \notin {"Idle", "Done", "Failed"}
    /\ ~silent
    /\ silent' = TRUE
    /\ UNCHANGED <<notc, op, new_name, phase, sub, pc, conns, queries, polled, status, result>>

\* A second passes.
Tick ==
    /\ clock < BootTime + MaxTicks
    /\ clock' = clock + 1
    /\ UNCHANGED <<kvars, cvars, dvars, ovars, pvars, nvars, svars>>

\* A deadline of the operation in progress fires.
Deadline == ConnectTimeout \/ LoginTimeout \/ SleepElapses

StartPlain ==
    \E o \in {"turn_on", "turn_off", "get_status"}, quiet \in BOOLEAN :
        StartOp(o, <<>>, quiet)

StartRename ==
    \E name \in NameInputs, quiet \in BOOLEAN :
        StartOp("set_device_name", name, quiet)

LoginReadAny == \E response \in LoginResponses : LoginRead(response)

StatusReadAny == \E response \in CommandResponses : StatusRead(response)

RenameReadAny == \E response \in CommandResponses : RenameRead(response)

Next ==
    \/ StartPlain
    \/ StartRename
    \/ ConnectOk
    \/ ConnectErr
    \/ ConnectTimeout
    \/ LoginWrite
    \/ LoginWriteErr
    \/ LoginReadAny
    \/ LoginReadErr
    \/ LoginTimeout
    \/ Send
    \/ SendErr
    \/ StatusReadAny
    \/ RenameReadAny
    \/ ResponseReadErr
    \/ SleepElapses
    \/ GoSilent
    \/ Tick

Spec == Init /\ [][Next]_vars

(***************************************************************************)
(* The controller built with any device id the caller gives                *)
(***************************************************************************)
\* SwitcherController::new stores device_id: String as given: the id of
\* the plug, one of five characters, one that is not hex text.
DeviceIds ==
    { DeviceId,
      <<"a", "1", "b", "2", "c">>,
      <<"z", "z", "z", "z", "z", "z">> }

InitAnyDeviceId ==
    /\ InitOperation /\ InitDiscovery /\ InitPure /\ InitCalls /\ InitStore
    /\ InitObjects
    /\ clock = BootTime
    /\ controller_device_id \in DeviceIds
    /\ controller_ip_address = DeviceIp

SpecAnyDeviceId == InitAnyDeviceId /\ [][Next]_vars

(***************************************************************************)
(* Discovery Packet Decoder (device.rs)                                    *)
(***************************************************************************)
DISCOVERY_PACKET_LEN == 165

\* u32::from_str_radix(text, 16) / u8 / u16: the digits, most significant first.
RECURSIVE from_str_radix(_)
from_str_radix(text) ==
    IF text = <<>> THEN 0
    ELSE 16 * from_str_radix(SubSeq(text, 1, Len(text) - 1)) + HexVal(text[Len(text)])

\* format!("{:02X}", b)
UpperHex2(b) == <<HexDigitsUpper[(b \div 16) + 1], HexDigitsUpper[(b % 16) + 1]>>

\* String::from_utf8_lossy, the characters as code points: an ASCII byte is
\* its own character, a lead byte C2..DF with a continuation byte 80..BF is
\* one two-byte character, and a byte that starts no valid sequence becomes
\* U+FFFD.  (Three- and four-byte sequences are not among the inputs.)
from_utf8_lossy(bytes) ==
    LET n == Len(bytes)
        chars[i \in 1..(n + 1)] ==
            IF i > n THEN <<>>
            ELSE IF bytes[i] < 128 THEN <<bytes[i]>> \o chars[i + 1]
            ELSE IF /\ bytes[i] \in 194..223
                    /\ i + 1 <= n
                    /\ bytes[i + 1] \in 128..191
            THEN <<(bytes[i] - 192) * 64 + (bytes[i + 1] - 128)>> \o chars[i + 2]
            ELSE <<65533>> \o chars[i + 1]
    IN  chars[1]

\* name_bytes.iter().position(|&b| b == 0).unwrap_or(name_bytes.len())
name_end_is_len(name_bytes) == Len(name_bytes)
name_end_of(name_bytes) ==
    IF \E i \in 1..Len(name_bytes) : name_bytes[i] = 0
    THEN (CHOOSE i \in 1..Len(name_bytes) :
             /\ name_bytes[i] = 0
             /\ \A j \in 1..(i - 1) : name_bytes[j] # 0) - 1
    ELSE Len(name_bytes)

\* The device type the decoder accepts: "01a8", the power plug.
is_any_device(device_type_hex) == TRUE
is_power_plug(device_type_hex) == device_type_hex = <<"0", "1", "a", "8">>

\* The state of a broadcast: "01" is On, "00" and every other value Off.
state_of_nonzero(hex_device_state) ==
    IF hex_device_state = <<"0", "0">> THEN "Off" ELSE "On"
state_of(hex_device_state) ==
    IF hex_device_state = <<"0", "1">> THEN "On" ELSE "Off"

\* format!("{}{}{}{}", &hex_ip[6..8], &hex_ip[4..6], &hex_ip[2..4],
\* &hex_ip[0..2]): the digits of ip_addr, most significant first.
digits_as_sent(hex_ip) == hex_ip
reversed_digits(hex_ip) ==
    Slice(hex_ip, 6, 8) \o Slice(hex_ip, 4, 6)
    \o Slice(hex_ip, 2, 4) \o Slice(hex_ip, 0, 2)

\* from_str_radix(text, 16) returns Ok: the text is not empty and holds
\* hex digits only (`.ok()?` returns None from the decoder otherwise).
radix_ok(text) ==
    /\ text # <<>>
    /\ \A i \in 1..Len(text) :
          \E k \in 1..16 : text[i] = HexDigits[k] \/ text[i] = HexDigitsUpper[k]

\* `if hex_data.len() < 160` and `< 278`: the bounds are positions in the
\* hex text, two characters per payload byte.
bytes_shorter(hex_data, n) == Len(hex_data) \div 2 < n
hex_data_shorter(hex_data, n) == Len(hex_data) < n

\* SwitcherDevice::from_discovery_packet
from_discovery_packet(data) ==
    IF Len(data) # DISCOVERY_PACKET_LEN \/ Slice(data, 0, 2) # <<254, 240>>
    THEN None
    ELSE
    LET hex_data == hex_encode(data)
        device_id == hex_encode(Slice(data, 18, 21))
        device_key == hex_encode(Slice(data, 40, 41))
        name_bytes == Slice(data, 42, 74)
        name == from_utf8_lossy(SubSeq(name_bytes, 1, name_end_of(name_bytes)))
        device_type_hex == hex_encode(Slice(data, 74, 76))
    IN  IF ~is_power_plug(device_type_hex) THEN None
        ELSE IF hex_data_shorter(hex_data, 160) THEN None
        ELSE
        LET hex_ip == Slice(hex_data, 152, 160)
            \* ip_addr is a u32, wider than the integers of TLC: it is kept
            \* as its eight hex digits, and (ip_addr >> 8k) & 0xFF is the
            \* value of the k-th pair of digits from the right.
            ip_addr == reversed_digits(hex_ip)
            ip_address == ToString(from_str_radix(Slice(ip_addr, 6, 8))) \o "."
                          \o ToString(from_str_radix(Slice(ip_addr, 4, 6))) \o "."
                          \o ToString(from_str_radix(Slice(ip_addr, 2, 4))) \o "."
                          \o ToString(from_str_radix(Slice(ip_addr, 0, 2)))
        IN  IF ~radix_ok(ip_addr) THEN None
            ELSE IF hex_data_shorter(hex_data, 278) THEN None
            ELSE
            LET hex_mac == Slice(hex_data, 160, 172)
                mac_address ==
                    UpperHex2(from_str_radix(Slice(hex_mac, 0, 2))) \o <<":">>
                    \o UpperHex2(from_str_radix(Slice(hex_mac, 2, 4))) \o <<":">>
                    \o UpperHex2(from_str_radix(Slice(hex_mac, 4, 6))) \o <<":">>
                    \o UpperHex2(from_str_radix(Slice(hex_mac, 6, 8))) \o <<":">>
                    \o UpperHex2(from_str_radix(Slice(hex_mac, 8, 10))) \o <<":">>
                    \o UpperHex2(from_str_radix(Slice(hex_mac, 10, 12)))
                hex_device_state == Slice(hex_data, 266, 268)
                state == state_of(hex_device_state)
                hex_power == Slice(hex_data, 270, 278)
                power_consumption ==
                    from_str_radix(Slice(hex_power, 2, 4) \o Slice(hex_power, 0, 2))
            IN  IF \E k \in 0..5 : ~radix_ok(Slice(hex_mac, 2 * k, 2 * k + 2))
                THEN None
                ELSE
                [some |-> TRUE,
                 device_id |-> device_id,
                 device_key |-> device_key,
                 ip_address |-> ip_address,
                 mac_address |-> mac_address,
                 name |-> name,
                 device_type |-> "Switcher Power Plug",
                 state |-> state,
                 power_consumption |-> power_consumption]

\* `data.len() != 165 || &data[0..2] != ...`: the right operand of || is
\* evaluated, and data[0..2] sliced, only when the left one is false.
magic_checked_always(len) == TRUE
magic_checked(len) == len = DISCOVERY_PACKET_LEN

\* The slices from_discovery_packet takes on this input, each as
\* <<end of the range, length of what is sliced>>, on the path the input
\* makes it follow.  A range that ends past the length panics.
decoder_slices(data) ==
    LET len == Len(data)
        header == len = DISCOVERY_PACKET_LEN /\ Slice(data, 0, 2) = <<254, 240>>
        typed == header /\ is_power_plug(hex_encode(Slice(data, 74, 76)))
        with_ip == typed /\ 2 * len >= 160
        with_mac == with_ip /\ 2 * len >= 278
    IN  (IF magic_checked(len) THEN {<<2, len>>} ELSE {})
        \cup (IF header THEN {<<21, len>>, <<41, len>>, <<74, len>>, <<76, len>>}
              ELSE {})
        \cup (IF with_ip THEN {<<160, 2 * len>>, <<8, 8>>} ELSE {})
        \cup (IF with_mac
              THEN {<<172, 2 * len>>, <<12, 12>>, <<268, 2 * len>>,
                    <<278, 2 * len>>, <<4, 8>>}
              ELSE {})

\* A call that panicked returned nothing.
Panicked == [some |-> FALSE, panicked |-> TRUE]

\* What a call of from_discovery_packet ends with.
decode(data) ==
    IF \E s \in decoder_slices(data) : s[1] > s[2] THEN Panicked
    ELSE from_discovery_packet(data)

(***************************************************************************)
(* The environment of the listener: the datagrams that may arrive          *)
(***************************************************************************)
\* A 165-byte broadcast frame with the given fields (0-based offsets).
Frame(id, name, typ, ip, st, pw) ==
    [i \in 1..DISCOVERY_PACKET_LEN |->
        LET j == i - 1
        IN  CASE j = 0 -> 254
              [] j = 1 -> 240
              [] j \in 18..20 -> id[j - 17]
              [] j = 40 -> 7
              [] j \in 42..73 -> IF j - 41 <= Len(name) THEN name[j - 41] ELSE 0
              [] j \in 74..75 -> typ[j - 73]
              [] j \in 76..79 -> ip[j - 75]
              [] j \in 80..85 -> 160 + j
              [] j = 133 -> st
              [] j \in 135..136 -> pw[j - 134]
              [] OTHER -> 0]

\* The datagrams of the model: two frames of one device under different
\* names, a frame of a second device, a frame of another device type and
\* a datagram that is no Switcher frame.
Datagrams ==
    << Frame(<<1, 2, 3>>, <<80, 108, 117, 103>>, <<1, 168>>, <<192, 168, 1, 5>>, 1, <<52, 18>>),
       Frame(<<1, 2, 3>>, <<66>>, <<1, 168>>, <<192, 168, 1, 5>>, 0, <<0, 0>>),
       Frame(<<171, 205, 239>>, <<67>>, <<1, 168>>, <<10, 0, 0, 24>>, 2, <<1, 0>>),
       Frame(<<9, 9, 9>>, <<68>>, <<1, 167>>, <<10, 0, 0, 25>>, 1, <<0, 0>>),
       <<254, 240, 0>> >>

(***************************************************************************)
(* Discovery Listener (discovery.rs, discover_network)                     *)
(***************************************************************************)
ErrBind == "io::Error (UdpSocket::bind)"
ErrSetBroadcast == "io::Error (set_broadcast)"

\* HashMap<String, SwitcherDevice> as a set of <<key, value>> pairs.
contains_key(map, k) == \E e \in map : e[1] = k

\* HashMap::insert: the value stored under the key is replaced.
insert(map, k, v) == {e \in map : e[1] # k} \cup {<<k, v>>}

\* devices.values().cloned().collect()
values(map) == {e[2] : e \in map}

\* The task's insert-or-skip decision (discovery.rs 210-218).
InsertAlways(map, d) == insert(map, d.device_id, d)
InsertOrSkip(map, d) ==
    IF ~contains_key(map, d.device_id) THEN insert(map, d.device_id, d) ELSE map

\* The mutex after the task's insert-or-skip block: the guard is a local of
\* the block, dropped where the block ends.
GuardKeptByTask == "task"
GuardAfterBlock == "none"

\* The socket once the task's future is dropped (loop broken or aborted):
\* the task owned it by move, so it is closed.
SocketLeaked == "leaked"
SocketAfterTaskEnds == "none"

\* Where the caller goes when bind fails: it returns the error.
RetryBind == "Binding"
AfterBindError == "Failed"

\* The caller invokes discover_network.
ListenEnter ==
    /\ dpc \in {"Idle", "Done", "Failed"}
    /\ dpc' = "Binding"
    /\ binds' = 0
    /\ spawned' = FALSE
    /\ slept' = FALSE
    /\ dresult' = "none"
    /\ found' = {}
    /\ UNCHANGED <<kvars, tpc, socket, rxq, sent, device, devices, lock, aborted, seen, prior>>

StartListen ==
    /\ ListenEnter
    /\ UNCHANGED notd

\* UdpSocket::bind fails (the port is taken, here or by another process):
\* the error is returned.
BindFails ==
    /\ dpc = "Binding"
    /\ binds' = binds + 1
    /\ dpc' = AfterBindError
    /\ dresult' = IF AfterBindError = "Failed" THEN ErrBind ELSE dresult
    /\ UNCHANGED <<kvars, tpc, socket, rxq, sent, device, devices, lock, aborted, seen,
                   spawned, slept, found, prior>>

BindErr ==
    /\ BindFails
    /\ UNCHANGED notd

\* UdpSocket::bind succeeds but set_broadcast fails: the error is returned
\* and the socket, still owned by the caller, is dropped.
SetBroadcastFails ==
    /\ dpc = "Binding"
    /\ socket = "none"
    /\ binds' = binds + 1
    /\ dpc' = "Failed"
    /\ dresult' = ErrSetBroadcast
    /\ UNCHANGED <<kvars, tpc, socket, rxq, sent, device, devices, lock, aborted, seen,
                   spawned, slept, found, prior>>

SetBroadcastErr ==
    /\ SetBroadcastFails
    /\ UNCHANGED notd

\* UdpSocket::bind and set_broadcast succeed: the receive task is spawned
\* with the socket and a clone of the (still empty) map, and the caller
\* sleeps.  The map of this window is the one created at the top of
\* discover_network; nothing can have used it before the spawn.
BindOkSpawn ==
    /\ dpc = "Binding"
    /\ socket = "none"
    /\ binds' = binds + 1
    /\ socket' = "task"
    /\ spawned' = TRUE
    /\ tpc' = "scheduled"
    /\ prior' = tpc
    /\ aborted' = FALSE
    /\ devices' = {}
    /\ seen' = <<>>
    /\ device' = <<>>
    /\ rxq' = <<>>
    /\ sent' = 0
    /\ dpc' = "Sleeping"
    /\ UNCHANGED <<notd, lock, slept, dresult, found>>

\* A device (or anything else) broadcasts datagram k to port 10002.
Broadcast(k) ==
    /\ socket # "none"
    /\ sent < MaxDatagrams
    /\ rxq' = Append(rxq, k)
    /\ sent' = sent + 1
    /\ UNCHANGED <<notd, dpc, tpc, socket, device, devices, lock, aborted, seen,
                   binds, spawned, slept, dresult, found, prior>>

BroadcastAny == \E k \in 1..Len(Datagrams) : Broadcast(k)

\* The runtime polls the task: for the first time, or because the socket
\* became readable.  A task aborted meanwhile is not polled again.
TaskWake ==
    /\ \/ tpc = "scheduled"
       \/ tpc = "suspended" /\ rxq # <<>>
    /\ ~aborted
    /\ tpc' = "recv"
    /\ UNCHANGED <<notd, dpc, socket, rxq, sent, device, devices, lock, aborted, seen,
                   binds, spawned, slept, dresult, found, prior>>

\* recv_from finds no datagram: the task is suspended in it.
TaskSuspend ==
    /\ tpc = "recv"
    /\ rxq = <<>>
    /\ tpc' = "suspended"
    /\ UNCHANGED <<notd, dpc, socket, rxq, sent, device, devices, lock, aborted, seen,
                   binds, spawned, slept, dresult, found, prior>>

\* recv_from returns a datagram and the task decodes it: a record goes on
\* to the map, anything else is skipped and the loop receives again.
TaskRecv ==
    /\ tpc = "recv"
    /\ rxq # <<>>
    /\ rxq' = Tail(rxq)
    /\ LET d == from_discovery_packet(Datagrams[Head(rxq)])
       IN  IF d.some
           THEN /\ device' = d
                /\ seen' = Append(seen, d)
                /\ tpc' = "locking"
           ELSE UNCHANGED <<kvars, device, seen, tpc>>
    /\ UNCHANGED <<notd, dpc, socket, sent, devices, lock, aborted,
                   binds, spawned, slept, dresult, found, prior>>

\* A caller that would await the task's handle next to the sleep: the end
\* of the task wakes it.
caller_woken_by_task(at) ==
    IF at = "Sleeping" THEN "Locking" ELSE at

\* The caller's position when the task ends: the caller awaits
\* sleep(duration) only, the JoinHandle is never awaited, so the end of the
\* task leaves the caller where it is.
caller_when_task_ends(at) ==
    at

\* recv_from returns an error: the loop breaks, the task ends and drops
\* the socket.  The error is logged and goes nowhere else.
TaskRecvErr ==
    /\ tpc = "recv"
    /\ tpc' = "finished"
    /\ socket' = SocketAfterTaskEnds
    /\ rxq' = <<>>
    /\ dpc' = caller_when_task_ends(dpc)
    /\ UNCHANGED <<notd, sent, device, devices, lock, aborted, seen,
                   binds, spawned, slept, dresult, found, prior>>

\* devices_clone.lock() returns the guard.
TaskLock ==
    /\ tpc = "locking"
    /\ lock = "none"
    /\ lock' = "task"
    /\ tpc' = "locked"
    /\ UNCHANGED <<notd, dpc, socket, rxq, sent, device, devices, aborted, seen,
                   binds, spawned, slept, dresult, found, prior>>

\* With the guard: insert the record unless its id is already a key; the
\* guard is dropped and the loop goes back to recv_from.
TaskInsert ==
    /\ tpc = "locked"
    /\ devices' = InsertOrSkip(devices, device)
    /\ device' = <<>>
    /\ lock' = GuardAfterBlock
    /\ tpc' = "recv"
    /\ UNCHANGED <<notd, dpc, socket, rxq, sent, aborted, seen,
                   binds, spawned, slept, dresult, found, prior>>

\* The runtime drops the future of an aborted task that is not running;
\* the socket it owns is closed.
TaskCancel ==
    /\ tpc \in {"scheduled", "suspended"}
    /\ aborted
    /\ tpc' = "cancelled"
    /\ socket' = SocketAfterTaskEnds
    /\ rxq' = <<>>
    /\ UNCHANGED <<notd, dpc, sent, device, devices, lock, aborted, seen,
                   binds, spawned, slept, dresult, found, prior>>

\* sleep(duration) ends: handle.abort(), then the caller asks for the lock.
SleepDone ==
    /\ dpc = "Sleeping"
    /\ slept' = TRUE
    /\ aborted' = TRUE
    /\ dpc' = "Locking"
    /\ UNCHANGED <<notd, tpc, socket, rxq, sent, device, devices, lock, seen,
                   binds, spawned, dresult, found, prior>>

\* discovered_devices.lock() returns the guard.
CallerLock ==
    /\ dpc = "Locking"
    /\ lock = "none"
    /\ lock' = "caller"
    /\ dpc' = "Locked"
    /\ UNCHANGED <<notd, tpc, socket, rxq, sent, device, devices, aborted, seen,
                   binds, spawned, slept, dresult, found, prior>>

\* The caller clones the records out of the map and returns them; its
\* guard is dropped.
ListenLeave ==
    /\ dpc = "Locked"
    /\ found' = values(devices)
    /\ dresult' = "Ok"
    /\ lock' = "none"
    /\ dpc' = "Done"
    /\ UNCHANGED <<kvars, tpc, socket, rxq, sent, device, devices, aborted, seen,
                   binds, spawned, slept, prior>>

ListenReturn ==
    /\ ListenLeave
    /\ UNCHANGED notd

NextDiscovery ==
    \/ StartListen
    \/ BindErr
    \/ SetBroadcastErr
    \/ BindOkSpawn
    \/ BroadcastAny
    \/ TaskWake
    \/ TaskSuspend
    \/ TaskRecv
    \/ TaskRecvErr
    \/ TaskLock
    \/ TaskInsert
    \/ TaskCancel
    \/ SleepDone
    \/ CallerLock
    \/ ListenReturn

SpecDiscovery == Init /\ [][NextDiscovery]_vars

(***************************************************************************)
(* Properties of the Device Session Controller (checked under Spec)        *)
(***************************************************************************)
Turning == op \in {"turn_on", "turn_off"}

Ended == pc \in {"Done", "Failed"}

\* The connections of the given kind the operation has opened.
ConnsOf(kind) == {i \in 1..Len(conns) : conns[i].kind = kind}

\* The control packet of this turn_on / turn_off call was written.
ControlWritten ==
    /\ Len(conns) >= 1
    /\ conns[1].kind = "control"
    /\ conns[1].cmdWritten

\* Both status queries completed and neither reported the desired state.
BothPollsMismatch ==
    /\ Len(polled) = 2
    /\ polled[1] # Desired(op)
    /\ polled[2] # Desired(op)

\* C1: one turn_on / turn_off call makes at most two get_status calls (and
\* opens at most two status connections), all of them after its control
\* command was written; a third status query never occurs.
C1_AtMostTwoStatusQueries ==
    Turning =>
        /\ queries <= 2
        /\ Cardinality(ConnsOf("status")) <= queries
        /\ queries > 0 => ControlWritten

C1_Witness ==
    /\ op = "turn_on"
    /\ queries = 2
    /\ Cardinality(ConnsOf("status")) = 2
    /\ pc = "Failed"
    /\ result = ErrNotConfirmedOn

\* C2: when the first status query reports the desired state the call
\* returns Ok after exactly one status query; when the first reports
\* another state and the second the desired one it returns Ok after
\* exactly two; and Ok is returned in no other way.
C2_SuccessAfterOneOrTwoPolls ==
    Turning =>
        /\ (Len(polled) >= 1 /\ polled[1] = Desired(op)) =>
              (pc = "Done" /\ result = "Ok" /\ queries = 1 /\ Len(polled) = 1)
        /\ (Len(polled) = 2 /\ polled[1] # Desired(op) /\ polled[2] = Desired(op)) =>
              (pc = "Done" /\ result = "Ok" /\ queries = 2)
        /\ result = "Ok" =>
              \/ (queries = 1 /\ polled = <<Desired(op)>>)
              \/ (queries = 2 /\ Len(polled) = 2 /\ polled[1] # Desired(op)
                    /\ polled[2] = Desired(op))

C2_Witness ==
    /\ op = "turn_off"
    /\ result = "Ok"
    /\ queries = 2
    /\ polled = <<"On", "Off">>

\* The errors of a failed connect, login, send or short reply.
TransportErrors == {ErrIo, ErrElapsed, ErrLoginTooShort, ErrNoOrInvalidDevice}

\* C3: turn_on / turn_off returns its "Command sent but device did not
\* turn ON/OFF" error exactly when the control packet was written and both
\* status queries completed and neither reported the desired state; every
\* other failure returns one of the transport errors, which differ from it.
C3_NotConfirmedIffTwoMismatches ==
    Turning =>
        /\ result = NotConfirmed(op) <=> (ControlWritten /\ BothPollsMismatch)
        /\ (pc = "Failed" /\ ~BothPollsMismatch) => result \in TransportErrors
        /\ {ErrNotConfirmedOn, ErrNotConfirmedOff} \cap TransportErrors = {}
        /\ result # NotConfirmed(IF op = "turn_on" THEN "turn_off" ELSE "turn_on")

C3_Witness ==
    /\ op = "turn_on"
    /\ pc = "Failed"
    /\ result = ErrNotConfirmedOn
    /\ polled = <<"Unknown", "Off">>

\* The reply read by the last status query of the call, and whether it
\* holds byte b at offset 75.
LastStatusReply == conns[Len(conns)].reply

HasStateByte(response, b) ==
    /\ Len(response) > DEVICE_STATE_BYTE_POS
    /\ response[DEVICE_STATE_BYTE_POS + 1] = b

\* C29 as stated: turn_off returns Ok only if a status reply read during
\* the call held 0x00 at offset 75, and turn_on only if one held 0x01
\* there.
C29_SuccessOnlyOnReportedByte ==
    (Turning /\ result = "Ok") =>
        \E i \in ConnsOf("status") :
            HasStateByte(conns[i].reply, IF op = "turn_on" THEN 1 ELSE 0)

\* C29 amended: turn_on returns Ok only if the reply of its last status
\* query held 0x01 at offset 75; turn_off returns Ok only if the reply of
\* its last status query was at least 50 bytes long and either held 0x00
\* at offset 75 or was too short to have that byte (75 bytes or fewer),
\* and a turn_off whose status query reads such a short reply does return
\* Ok.
C29_SuccessOnlyOnDecodedState ==
    /\ (op = "turn_on" /\ result = "Ok") =>
          /\ conns[Len(conns)].kind = "status"
          /\ HasStateByte(LastStatusReply, 1)
    /\ (op = "turn_off" /\ result = "Ok") =>
          /\ conns[Len(conns)].kind = "status"
          /\ Len(LastStatusReply) >= MIN_STATUS_RESPONSE_LEN
          /\ \/ HasStateByte(LastStatusReply, 0)
             \/ Len(LastStatusReply) <= DEVICE_STATE_BYTE_POS
    /\ (/\ op = "turn_off"
        /\ Len(conns) >= 2
        /\ conns[Len(conns)].kind = "status"
        /\ Len(LastStatusReply) >= MIN_STATUS_RESPONSE_LEN
        /\ Len(LastStatusReply) <= DEVICE_STATE_BYTE_POS) =>
          /\ pc = "Done"
          /\ result = "Ok"

C29_Witness ==
    /\ op = "turn_off"
    /\ pc = "Done"
    /\ result = "Ok"
    /\ polled = <<"On", "Off">>
    /\ Len(conns) = 3
    /\ Len(conns[2].reply) > DEVICE_STATE_BYTE_POS
    /\ Len(conns[3].reply) = MIN_STATUS_RESPONSE_LEN
    /\ \A i \in ConnsOf("status") : ~HasStateByte(conns[i].reply, 0)

\* The packet written on connection c starts with the control packet of
\* this call (the signature follows it).
IsControlPacket(c) ==
    LET p == build_control_packet(c.session_id, c.timestamp, DeviceId, Command(op))
    IN  /\ c.cmdWritten
        /\ Len(c.packet) >= Len(p)
        /\ SubSeq(c.packet, 1, Len(p)) = p

\* C30: in one turn_on / turn_off call the control packet is written at
\* most once, on the first connection, which carries nothing else and is
\* closed before a status query starts; every later connection is a status
\* connection and carries no control packet (the retry repeats the status
\* query only); a status query is made only after the control packet was
\* written, and a call that has made one, or has ended Ok or not confirmed,
\* has written it exactly once.
C30_ControlPacketWrittenOnce ==
    Turning =>
        /\ \A i \in 1..Len(conns) :
              /\ conns[i].kind = "control" <=> i = 1
              /\ conns[i].cmdWritten => (IsControlPacket(conns[i]) <=> i = 1)
        /\ Cardinality({i \in 1..Len(conns) : IsControlPacket(conns[i])}) <= 1
        /\ (queries > 0 \/ Len(conns) >= 2 \/ result \in {"Ok", NotConfirmed(op)}) =>
              /\ ControlWritten
              /\ ~conns[1].open
              /\ Cardinality({i \in 1..Len(conns) : IsControlPacket(conns[i])}) = 1
        /\ (pc = "Failed" /\ ~ControlWritten) =>
              /\ queries = 0
              /\ Len(conns) <= 1

C30_Witness ==
    /\ op = "turn_on"
    /\ pc = "Done"
    /\ queries = 2
    /\ Len(conns) = 3
    /\ IsControlPacket(conns[1])
    /\ conns[2].cmdWritten
    /\ conns[3].cmdWritten
    /\ ~IsControlPacket(conns[3])
    /\ polled = <<"Off", "On">>

\* C37: whatever device_id the controller was built with, no operation
\* panics, and with a device_id that is not hex text of even length an
\* operation that has ended has returned an error.
C37_BadDeviceIdIsAnError ==
    /\ pc # "Panicked"
    /\ (~hex_decode_ok(controller_device_id) /\ pc = "Done") => result # "Ok"

\* C4: on every connection the command packet is written only after the
\* login packet was written and a login reply of at least 20 bytes was
\* read on it; after a shorter login reply (0 bytes included) or a fired
\* login timeout the operation has failed, the connection is closed and no
\* command packet was written on it.
C4_CommandOnlyAfterLogin ==
    \A i \in 1..Len(conns) :
        LET c == conns[i]
        IN  /\ c.cmdWritten => (c.loginWritten /\ c.loginLen >= MIN_LOGIN_RESPONSE_LEN)
            /\ c.loginLen # -1 => c.loginWritten
            /\ ((c.loginLen # -1 /\ c.loginLen < MIN_LOGIN_RESPONSE_LEN) \/ c.loginTimedOut) =>
                  /\ ~c.cmdWritten
                  /\ ~c.open
                  /\ i = Len(conns)
                  /\ pc = "Failed"
                  /\ result = IF c.loginTimedOut THEN ErrElapsed ELSE ErrLoginTooShort

C4_Witness ==
    /\ Len(conns) = 2
    /\ conns[1].cmdWritten
    /\ conns[1].loginLen = 24
    /\ conns[2].kind = "status"
    /\ conns[2].loginLen = 19
    /\ ~conns[2].cmdWritten
    /\ result = ErrLoginTooShort

\* The operation is suspended in a network wait or a sleep.
AtWait ==
    \/ pc = "Connecting"
    \/ pc = "LoggingIn" /\ Cur.loginWritten
    \/ pc = "AwaitingResponse"
    \/ pc = "Sleeping"

\* A step of the operation in progress (the clock and the peer aside).
OperationStep ==
    \/ ConnectOk \/ ConnectErr \/ ConnectTimeout
    \/ LoginWriteErr \/ LoginWrite \/ LoginReadAny \/ LoginReadErr \/ LoginTimeout
    \/ SendErr \/ Send
    \/ StatusReadAny \/ RenameReadAny \/ ResponseReadErr
    \/ SleepElapses

\* C5: when the peer sends nothing more, a get_status or set_device_name
\* call in progress can still take a step (so it ends Done or Failed and
\* never hangs), and every wait of the controller other than the connect
\* of send_control_command has a deadline that can fire.
C5_EveryWaitHasDeadline ==
    silent =>
        /\ (sub \in {"get_status", "set_device_name"} /\ ~Ended /\ pc # "Idle") =>
              ENABLED OperationStep
        /\ (AtWait /\ ~(sub = "send_control_command" /\ pc = "Connecting")) =>
              ENABLED Deadline

\* C6: set_device_name with a name of fewer than 2 or more than 32 bytes
\* opens no connection (so writes no login packet) and returns the
\* name-length error.
C6_InvalidNameRejectedBeforeIO ==
    (op = "set_device_name" /\ ~string_to_hexadecimal_device_name(new_name).ok) =>
        /\ conns = <<>>
        /\ Ended => result = ErrInvalidNameLength(Len(new_name))

\* The timestamp field of a packet: hex characters 48..56 of every template.
TimestampIn(packet) == Slice(packet, 48, 56)

\* C13 as stated: the timestamp of a control, status or rename packet is
\* read from the clock at the Sending step, after the login exchange.
C13_TimestampReadAtSending ==
    \A i \in 1..Len(conns) :
        conns[i].cmdWritten =>
            TimestampIn(conns[i].packet) = current_timestamp_hex(conns[i].sent_at)

\* C13, amended: the timestamp of a control, status or rename packet is the
\* one login took before it wrote the login packet on the same connection,
\* the value already sent in the login packet; the clock is not read again
\* at the Sending step.
C13_TimestampOfLoginReused ==
    \A i \in 1..Len(conns) :
        conns[i].cmdWritten =>
            /\ Len(conns[i].packet) >= 56
            /\ TimestampIn(conns[i].packet) = TimestampIn(conns[i].login_packet)

C13_Witness ==
    \E i \in 1..Len(conns) :
        /\ conns[i].cmdWritten
        /\ conns[i].sent_at = BootTime + 1
        /\ TimestampIn(conns[i].login_packet) = current_timestamp_hex(BootTime)
        /\ TimestampIn(conns[i].packet) = current_timestamp_hex(BootTime)

\* C14: an operation whose command reply is shorter than the minimum never
\* returns success: get_status fails with NoOrInvalidDevice for every reply
\* of fewer than 50 bytes, set_device_name fails with NoResponse for every
\* reply of fewer than 20 bytes, a 0-byte read included.
C14_ShortReplyFails ==
    /\ \A i \in 1..Len(conns) :
          LET c == conns[i]
          IN  /\ (c.kind = "status" /\ c.reply_len >= 0 /\ c.reply_len < 50) =>
                    /\ i = Len(conns)
                    /\ pc = "Failed"
                    /\ result = ErrNoOrInvalidDevice
              /\ (c.kind = "rename" /\ c.reply_len >= 0 /\ c.reply_len < 20) =>
                    /\ pc = "Failed"
                    /\ result = ErrNoResponse
    /\ (op \in {"get_status", "set_device_name"} /\ result = "Ok") =>
          /\ Len(conns) = 1
          /\ conns[1].reply_len >= (IF op = "get_status" THEN 50 ELSE 20)

C14_Witness ==
    /\ op = "get_status"
    /\ Len(conns) = 1
    /\ conns[1].cmdWritten
    /\ conns[1].reply_len = 49
    /\ pc = "Failed"
    /\ result = ErrNoOrInvalidDevice

(***************************************************************************)
(* Properties of the Discovery Listener (checked under SpecDiscovery)      *)
(***************************************************************************)
\* The records the task has run its insert-or-skip decision on.
Stored ==
    IF tpc \in {"locking", "locked"} THEN SubSeq(seen, 1, Len(seen) - 1) ELSE seen

\* The first record of s that carries the id.
FirstWithId(s, id) ==
    s[CHOOSE i \in 1..Len(s) :
        /\ s[i].device_id = id
        /\ \A j \in 1..(i - 1) : s[j].device_id # id]

\* C7: within one listen window the map holds, for every device_id the
\* task has decoded, exactly one record, the first one received with that
\* id (a later broadcast with the same id never replaces it, distinct ids
\* each have their record); the records returned are such first records,
\* one per id.
C7_FirstSeenWins ==
    /\ devices = { <<Stored[i].device_id, FirstWithId(Stored, Stored[i].device_id)>> :
                     i \in 1..Len(Stored) }
    /\ \A e1 \in devices, e2 \in devices : e1[1] = e2[1] => e1 = e2
    /\ dpc = "Done" =>
          /\ \A r \in found : r = FirstWithId(seen, r.device_id)
          /\ \A r1 \in found, r2 \in found : r1.device_id = r2.device_id => r1 = r2

C7_Witness ==
    /\ dpc = "Done"
    /\ Len(seen) = 3
    /\ seen[1].device_id = seen[2].device_id
    /\ seen[1].name # seen[2].name
    /\ seen[3].device_id # seen[1].device_id
    /\ found = {seen[1], seen[3]}

\* C8: the mutex is held only inside one insert-or-skip decision of the
\* task, or by the caller reading the map: a task that is suspended in
\* recv_from (or not running at all) does not hold it, a caller that is
\* sleeping does not hold it, and a caller waiting for the lock can either
\* take it or its holder can finish its decision and release it.
C8_LockOnlyAroundInsertOrSkip ==
    /\ lock = "task" <=> tpc = "locked"
    /\ lock = "caller" <=> dpc = "Locked"
    /\ tpc = "suspended" => lock # "task"
    /\ dpc = "Sleeping" => lock # "caller"
    /\ dpc = "Locking" => (ENABLED CallerLock \/ ENABLED TaskInsert)

C8_Witness ==
    /\ dpc = "Locking"
    /\ lock = "task"
    /\ aborted

\* C9: once the receive task has unwound (aborted, or ended by a receive
\* error) nothing owns the socket: the port is free, the caller kept no
\* handle to it, and a listen that binds next can succeed.
C9_SocketClosedWhenTaskUnwinds ==
    /\ tpc \in {"none", "finished", "cancelled"} => socket = "none"
    /\ socket \in {"none", "task"}
    /\ (dpc = "Binding" /\ tpc = "cancelled") => ENABLED BindOkSpawn

C9_Witness ==
    /\ prior = "cancelled"
    /\ dpc = "Sleeping"
    /\ socket = "task"

\* C10: a failed bind ends the call at once with that error: bind is
\* called once per call, no task is spawned by the call and it does not
\* sleep.
C10_BindFailureIsFatal ==
    /\ binds <= 1
    /\ dpc = "Binding" => binds = 0
    /\ dresult = ErrBind =>
          /\ dpc = "Failed"
          /\ binds = 1
          /\ ~spawned
          /\ ~slept
          /\ found = {}

C10_Witness ==
    /\ dresult = ErrBind
    /\ dpc = "Failed"
    /\ binds = 1

\* C28: once the task is spawned the call returns only after its sleep of
\* the full duration has ended, and it returns Ok: a receive error ends the
\* task but leaves the caller asleep and never becomes the call's result,
\* and a call that returns after the task was ended by a receive error
\* returns the records of the map, one for every id decoded before the
\* error.
C28_ReturnsAfterFullDuration ==
    /\ [](/\ (spawned /\ dpc \in {"Done", "Failed"}) =>
               /\ slept
               /\ dpc = "Done"
               /\ dresult = "Ok"
          /\ (spawned /\ tpc = "finished" /\ ~slept) => dpc = "Sleeping")
    /\ [][(dpc = "Locked" /\ dpc' = "Done" /\ tpc = "finished") =>
             /\ dresult' = "Ok"
             /\ found' = values(devices)
             /\ {r.device_id : r \in found'} =
                   {seen[i].device_id : i \in 1..Len(seen)}]_vars

C28_Witness ==
    /\ tpc = "finished"
    /\ dpc = "Done"
    /\ slept
    /\ dresult = "Ok"
    /\ Len(seen) = 2
    /\ found = {seen[1], seen[2]}
    /\ sent < MaxDatagrams

(***************************************************************************)
(* Pure functions applied to inputs.  The initial state of SpecPure draws  *)
(* the input from the sets below; one step applies a function to it.       *)
(***************************************************************************)
MaxNameArgLen == 34
MaxReplyLen == 81

\* Names of n UTF-8 bytes: n letters 'a', n letters from 'A' on, and
\* two-byte characters (U+00E9), closed by one letter when n is odd.
NameOf(p, n) ==
    [i \in 1..n |->
        CASE p = 1 -> 97
          [] p = 2 -> 65 + (i % 26)
          [] p = 3 -> IF i = n /\ n % 2 = 1 THEN 97
                      ELSE IF i % 2 = 1 THEN 195 ELSE 169
          [] OTHER -> IF i = 2 THEN 0 ELSE 98]

NameArgs == { NameOf(p, n) : p \in 1..4, n \in 0..MaxNameArgLen }

\* A status reply of n bytes: state byte s, power bytes lo and hi, every
\* other byte f.
StatusReply(n, s, lo, hi, f) ==
    [i \in 1..n |-> CASE i = DEVICE_STATE_BYTE_POS + 1 -> s
                      [] i = POWER_BYTE_POS + 1 -> lo
                      [] i = POWER_BYTE_POS + 2 -> hi
                      [] OTHER -> f]

StatusArgs ==
    { StatusReply(n, s, p[1], p[2], f) :
        n \in 0..MaxReplyLen,
        s \in {0, 1, 2, 255},
        p \in {<<0, 0>>, <<52, 18>>, <<255, 255>>},
        f \in {0, 1} }

\* A datagram of n bytes: magic at bytes 0..2, type at bytes 74..76, and
\* the other bytes either those of a broadcast frame or all f.
Payload(n, magic, typ, f) ==
    [i \in 1..n |->
        CASE i <= 2 -> magic[i]
          [] i \in 75..76 -> typ[i - 74]
          [] OTHER -> IF f = 0 /\ i <= DISCOVERY_PACKET_LEN
                      THEN Datagrams[1][i] ELSE f]

DecoderArgs ==
    { Payload(n, magic, typ, f) :
        n \in {0, 1, 2, 76, 80, 139, 164, 165, 166, 330, 1024},
        magic \in {<<254, 240>>, <<254, 241>>, <<0, 240>>, <<240, 254>>},
        typ \in {<<1, 168>>, <<1, 167>>, <<0, 168>>, <<168, 1>>},
        f \in {0, 48, 255} }

\* Broadcast frames of a power plug with every interesting state byte,
\* address and power reading.
FrameArgs ==
    { Frame(<<1, 2, 3>>, <<80, 108, 117, 103>>, <<1, 168>>, ip, st, pw) :
        ip \in {<<192, 168, 1, 5>>, <<10, 0, 0, 24>>, <<5, 1, 168, 192>>,
                <<255, 0, 128, 1>>, <<0, 0, 0, 0>>},
        st \in {0, 1, 2, 16, 255},
        pw \in {<<0, 0>>, <<52, 18>>} }

MaxSignLen == 2

\* Payloads to sign: every hex text of up to MaxSignLen bytes drawn from a
\* few values, and one packet of each kind.
ShortPayloads ==
    { hex_encode(b) :
        b \in UNION { [1..n -> {0, 1, 48, 127, 128, 255}] : n \in 0..MaxSignLen } }

\* Packets of each kind from session ids and timestamps of 8 hex characters,
\* device ids of 6, both commands and accepted names of 2, 4 and 32 bytes.
PacketSessionIds ==
    { session_id_of(LoginReply(24, <<171, 205, 239, 16>>)),
      <<"0", "0", "0", "0", "0", "0", "0", "0">> }

PacketTimestamps ==
    { current_timestamp_hex(BootTime), current_timestamp_hex(0),
      current_timestamp_hex(2147483647) }

PacketDeviceIds == { DeviceId, <<"f", "f", "f", "f", "f", "f">> }

PacketNames == { NameOf(1, 2), <<80, 108, 117, 103>>, NameOf(3, 32) }

PacketPayloads ==
    { build_login_packet(timestamp) : timestamp \in PacketTimestamps }
    \cup { build_control_packet(session_id, timestamp, device_id, command) :
               session_id \in PacketSessionIds, timestamp \in PacketTimestamps,
               device_id \in PacketDeviceIds, command \in {<<"0">>, <<"1">>} }
    \cup { build_get_state_packet(session_id, timestamp, device_id) :
               session_id \in PacketSessionIds, timestamp \in PacketTimestamps,
               device_id \in PacketDeviceIds }
    \cup { build_set_name_packet(session_id, timestamp, device_id,
                                 string_to_hexadecimal_device_name(name).hex) :
               session_id \in PacketSessionIds, timestamp \in PacketTimestamps,
               device_id \in PacketDeviceIds, name \in PacketNames }

SignArgs == ShortPayloads \cup PacketPayloads

\* The inputs of function f.
PureArgs(f) ==
    CASE f = "string_to_hexadecimal_device_name" -> NameArgs
      [] f = "get_status" -> StatusArgs
      [] f = "from_discovery_packet" -> DecoderArgs \cup FrameArgs
      [] f = "sign_packet" -> SignArgs

InitArg ==
    /\ InitController /\ InitDiscovery
    /\ fn = "none"
    /\ argof \in {"string_to_hexadecimal_device_name", "get_status",
                  "from_discovery_packet", "sign_packet"}
    /\ arg \in PureArgs(argof)
    /\ out = <<>>
    /\ clock = BootTime
    /\ InitCalls
    /\ InitStore
    /\ InitObjects

Apply(f, value) ==
    /\ fn = "none"
    /\ fn' = f
    /\ out' = value
    /\ UNCHANGED <<kvars, cvars, dvars, ovars, argof, arg, clock, nvars, svars>>

ApplyNameEncoder ==
    /\ argof = "string_to_hexadecimal_device_name"
    /\ Apply(argof, string_to_hexadecimal_device_name(arg))

\* The name field of the rename packet (the 32 bytes the encoded name
\* stands for) as a plug would broadcast it back, read by the decoder.
ApplyNameRoundTrip ==
    /\ argof = "string_to_hexadecimal_device_name"
    /\ LET enc == string_to_hexadecimal_device_name(arg)
       IN  Apply("name_round_trip",
                 [encoded |-> enc,
                  decoded |-> IF enc.ok
                              THEN from_discovery_packet(
                                       Frame(<<1, 2, 3>>, hex_decode(enc.hex), <<1, 168>>,
                                             <<192, 168, 1, 5>>, 0, <<0, 0>>))
                              ELSE None])

ApplyStatusOf ==
    /\ argof = "get_status"
    /\ Apply(argof, StatusOf(arg))

ApplyDecoder ==
    /\ argof = "from_discovery_packet"
    /\ Apply(argof, decode(arg))

ApplySign ==
    /\ argof = "sign_packet"
    /\ Apply(argof, sign_packet(arg))

NextPure ==
    \/ ApplyNameEncoder
    \/ ApplyNameRoundTrip
    \/ ApplyStatusOf
    \/ ApplyDecoder
    \/ ApplySign

SpecPure == InitArg /\ [][NextPure]_vars

(***************************************************************************)
(* Properties of the pure functions                                        *)
(***************************************************************************)
\* C15: for every status reply of at least 79 bytes the state is On when
\* byte 75 is 0x01, Off when it is 0x00 and Unknown for any other value,
\* and the power is byte 77 + 256 * byte 78 (little-endian).
C15_StatusFieldsDecoded ==
    (fn = "get_status" /\ Len(arg) >= 79) =>
        /\ out.ok
        /\ out.status.state = (CASE arg[76] = 1 -> "On"
                                 [] arg[76] = 0 -> "Off"
                                 [] OTHER -> "Unknown")
        /\ out.status.power_consumption = arg[78] + 256 * arg[79]

C15_Witness ==
    /\ fn = "get_status"
    /\ Len(arg) >= 79
    /\ arg[76] = 2 /\ arg[78] = 52 /\ arg[79] = 18
    /\ out.ok
    /\ out.status = [state |-> "Unknown", power_consumption |-> 4660]

\* C16: a status reply of length L >= 50 never fails for being short of a
\* field: the state is Off when L <= 75 and the power is 0 when L <= 78,
\* while a field whose bytes are present is decoded as usual.
C16_MissingFieldsDefault ==
    (fn = "get_status" /\ Len(arg) >= 50) =>
        /\ out.ok
        /\ Len(arg) <= 75 => out.status.state = "Off"
        /\ Len(arg) <= 78 => out.status.power_consumption = 0
        /\ Len(arg) >= 76 =>
              out.status.state = (CASE arg[76] = 1 -> "On"
                                    [] arg[76] = 0 -> "Off"
                                    [] OTHER -> "Unknown")
        /\ Len(arg) >= 79 =>
              out.status.power_consumption = arg[78] + 256 * arg[79]

C16_Witness ==
    /\ fn = "get_status"
    /\ Len(arg) = 78
    /\ arg[76] = 1 /\ arg[78] = 52
    /\ out.ok
    /\ out.status = [state |-> "On", power_consumption |-> 0]

\* The CRC of the claim, as the remainder of a division of polynomials over
\* GF(2): the message bits, most significant first, followed by 16 zero
\* bits, with the seed 0x1021 xored into the first 16 bits, divided by
\* x^16 + x^12 + x^5 + 1.  The division keeps the 16 low coefficients of
\* the running remainder as a number.
Seed == <<0, 0, 0, 1, 0, 0, 0, 0, 0, 0, 1, 0, 0, 0, 0, 1>>

DividendBit(bytes, i) ==
    LET m == IF i <= 8 * Len(bytes)
             THEN (bytes[(i + 7) \div 8] \div (2 ^ (7 - ((i - 1) % 8)))) % 2
             ELSE 0
    IN  IF i <= 16 THEN (m + Seed[i]) % 2 ELSE m

\* Add x^k to the polynomial r.
AddTerm[r \in Nat, k \in Nat] ==
    IF (r \div (2 ^ k)) % 2 = 1 THEN r - 2 ^ k ELSE r + 2 ^ k

\* Bring down the next bit; when the x^16 term appears, subtract the
\* generator.
DivideStep[r \in Nat, bit \in {0, 1}] ==
    IF 2 * r + bit >= 65536
    THEN AddTerm[AddTerm[AddTerm[2 * r + bit - 65536, 12], 5], 0]
    ELSE 2 * r + bit

\* What bringing down bits lo..hi of the dividend makes of the remainder.
RECURSIVE Divide(_, _, _)
Divide(bytes, lo, hi) ==
    [r \in Nat |->
        IF lo > hi THEN r
        ELSE IF lo = hi THEN DivideStep[r, DividendBit(bytes, lo)]
        ELSE LET mid == (lo + hi) \div 2
             IN  Divide(bytes, mid + 1, hi)[Divide(bytes, lo, mid)[r]]]

\* The two CRC bytes, low byte first.
SwappedCrc(bytes) ==
    LET r == Divide(bytes, 1, 8 * Len(bytes) + 16)[0]
    IN  <<r % 256, r \div 256>>

\* C17: a signed packet is the payload hex unchanged, then the byte-swapped
\* (low byte first) CRC-16 (polynomial 0x1021, initial 0x1021, no
\* reflection, no final xor) of the payload bytes, then the byte-swapped
\* CRC-16 of the key buffer: those two swapped bytes followed by 32 bytes
\* 0x30.
C17_SignedPacketLayout ==
    fn = "sign_packet" =>
        LET packet_segment == SwappedCrc(hex_decode(arg))
            key_segment == SwappedCrc(packet_segment \o Repeat(48, 32))
        IN  /\ SubSeq(out, 1, Len(arg)) = arg
            /\ SubSeq(out, Len(arg) + 1, Len(out))
                   = hex_encode(packet_segment \o key_segment)

\* The login packet of BootTime (0x69030000) signs to ...dea7e799: the CRC
\* of the packet is 0xa7de and the CRC of the key buffer is 0x99e7.
C17_Witness ==
    /\ fn = "sign_packet"
    /\ arg = build_login_packet(<<"6", "9", "0", "3", "0", "0", "0", "0">>)
    /\ SubSeq(out, 1, 156) = arg
    /\ SubSeq(out, 157, Len(out)) = <<"d", "e", "a", "7", "e", "7", "9", "9">>

\* C18 as stated: the signed packet is exactly 4 hex characters (2 bytes on
\* the wire) longer than the unsigned payload.
C18_FourCharactersLonger ==
    fn = "sign_packet" => Len(out) = Len(arg) + 4

\* C18, amended: the signed packet is exactly 8 hex characters (4 bytes on
\* the wire) longer than the unsigned payload: 4 characters for each of
\* the two CRC segments.
C18_EightCharactersLonger ==
    fn = "sign_packet" => Len(out) = Len(arg) + 8

C18_Witness ==
    /\ fn = "sign_packet"
    /\ arg = build_get_state_packet(<<"a", "b", "c", "d", "e", "f", "1", "0">>,
                                    current_timestamp_hex(BootTime), DeviceId)
    /\ Len(arg) = 88
    /\ Len(out) = 96

\* C19: the name encoder accepts exactly the names of 2 to 32 UTF-8 bytes;
\* for them it returns exactly 64 hex characters, the hex of the name bytes
\* followed only by '0'; for any other length it returns the
\* InvalidNameLength error and no encoding.
C19_NameEncoder ==
    fn = "string_to_hexadecimal_device_name" =>
        LET n == Len(arg)
        IN  /\ out.ok <=> (n >= 2 /\ n <= 32)
            /\ out.ok =>
                  /\ Len(out.hex) = 64
                  /\ \A k \in 1..n :
                        16 * HexVal(out.hex[2 * k - 1]) + HexVal(out.hex[2 * k])
                            = arg[k]
                  /\ \A i \in (2 * n + 1)..64 : out.hex[i] = "0"
                  /\ \A i \in 1..64 : out.hex[i] \in
                        {"0", "1", "2", "3", "4", "5", "6", "7", "8", "9",
                         "a", "b", "c", "d", "e", "f"}
            /\ ~out.ok =>
                  /\ DOMAIN out = {"ok", "err"}
                  /\ out.err = ErrInvalidNameLength(n)

C19_Witness ==
    /\ fn = "string_to_hexadecimal_device_name"
    /\ Len(arg) = 32
    /\ arg[32] = 169
    /\ out.ok
    /\ Len(out.hex) = 64
    /\ out.hex[63] = "a" /\ out.hex[64] = "9"

\* C38: for every name of 2 to 32 bytes without a NUL byte the encoded name
\* stands for a field of 32 bytes whose part before the first 0x00 (the
\* whole field when it has none) is the name's bytes, and the decoder reading
\* that field gives the name back, character for character.
C38_NameRoundTrip ==
    (/\ fn = "name_round_trip"
     /\ Len(arg) >= MIN_NAME_LEN /\ Len(arg) <= MAX_NAME_LEN
     /\ \A i \in 1..Len(arg) : arg[i] # 0) =>
        LET field == hex_decode(out.encoded.hex)
        IN  /\ out.encoded.ok
            /\ Len(field) = 32
            /\ SubSeq(field, 1, name_end_of(field)) = arg
            /\ out.decoded.some
            /\ out.decoded.name = from_utf8_lossy(arg)
            /\ Len(out.decoded.name) >= 1

\* A name of three bytes, one character of two bytes and a letter, comes
\* back as its two characters.
C38_Witness ==
    /\ fn = "name_round_trip"
    /\ arg = <<195, 169, 97>>
    /\ out.decoded.some
    /\ out.decoded.name = <<233, 97>>

\* C39: for every built packet (login, control, status, rename) the byte at
\* payload offset 2 is 0x52, 0x5d, 0x30 or 0x74 and equals the number of
\* bytes of the signed packet, the packet and its two checksums.
C39_LengthByteIsSignedLength ==
    (fn = "sign_packet" /\ arg \in PacketPayloads) =>
        LET declared == hex_decode(SubSeq(arg, 5, 6))[1]
        IN  /\ declared \in {82, 93, 48, 116}
            /\ Len(out) % 2 = 0
            /\ declared = Len(out) \div 2
            /\ declared = Len(hex_decode(arg)) + 4

\* A signed rename packet of 116 bytes carrying a name of 32 bytes.
C39_Witness ==
    /\ fn = "sign_packet"
    /\ arg \in PacketPayloads
    /\ SubSeq(arg, 5, 6) = <<"7", "4">>
    /\ Len(out) = 232
    /\ SubSeq(arg, 161, 164) = <<"c", "3", "a", "9">>

\* C20: the decoder returns no record for every payload whose length is
\* not 165, whose first two bytes are not FE F0, or whose bytes 74..76 are
\* not 01 A8, whatever the other bytes are.
C20_DecoderRejects ==
    (/\ fn = "from_discovery_packet"
     /\ \/ Len(arg) # 165
        \/ arg[1] # 254 \/ arg[2] # 240
        \/ arg[75] # 1 \/ arg[76] # 168) => out = None

C20_Witness ==
    /\ fn = "from_discovery_packet"
    /\ Len(arg) = 165
    /\ arg[1] = 254 /\ arg[2] = 240
    /\ arg[75] = 1 /\ arg[76] = 167
    /\ arg[19] # 0
    /\ out = None

\* C36: the decoder returns a record exactly for the payloads of 165 bytes
\* that start with FE F0 and have 01 A8 at bytes 74..76: none of its later
\* checks rejects such a payload, whatever its other bytes are.
C36_AcceptsExactlyPlugFrames ==
    fn = "from_discovery_packet" =>
        (out.some <=>
            /\ Len(arg) = DISCOVERY_PACKET_LEN
            /\ arg[1] = 254 /\ arg[2] = 240
            /\ arg[75] = 1 /\ arg[76] = 168)

\* A frame is accepted whose address, state and remaining bytes are 0xFF.
C36_Witness ==
    /\ fn = "from_discovery_packet"
    /\ out.some
    /\ arg[77] = 255
    /\ arg[134] = 255
    /\ out.state = "Off"

\* C21: the decoder is total: for every payload of 0 to 1024 bytes it
\* returns a record or no record, and no slice it takes ends past the
\* payload (or past the hex text of it), so it never panics.
C21_DecoderTotal ==
    fn = "from_discovery_packet" =>
        /\ out = None \/ out.some
        /\ \A s \in decoder_slices(arg) : s[1] <= s[2]

\* A one-byte payload, shorter than the magic the decoder compares: it is
\* rejected on its length.
C21_Witness ==
    /\ fn = "from_discovery_packet"
    /\ Len(arg) = 1
    /\ out = None

\* C22: for every accepted payload the state is On exactly when payload
\* byte 133 is 0x01 and Off otherwise; the decoder never yields Unknown.
C22_StateOnIffOne ==
    (fn = "from_discovery_packet" /\ out.some) =>
        /\ out.state \in {"On", "Off"}
        /\ out.state = "On" <=> arg[134] = 1

\* An accepted payload whose state byte is neither 0 nor 1.
C22_Witness ==
    /\ fn = "from_discovery_packet"
    /\ out.some
    /\ arg[134] = 16
    /\ out.state = "Off"

\* C23: for every accepted payload the dotted quad lists payload bytes 76,
\* 77, 78, 79 in that order.
C23_IpInPayloadOrder ==
    (fn = "from_discovery_packet" /\ out.some) =>
        out.ip_address = ToString(arg[77]) \o "." \o ToString(arg[78]) \o "."
                         \o ToString(arg[79]) \o "." \o ToString(arg[80])

\* An accepted payload whose address bytes are all different, the highest
\* one in the first place.
C23_Witness ==
    /\ fn = "from_discovery_packet"
    /\ out.some
    /\ <<arg[77], arg[78], arg[79], arg[80]>> = <<255, 0, 128, 1>>
    /\ out.ip_address = "255.0.128.1"

(***************************************************************************)
(* Concurrent calls.  The controller is used through &self: its fields     *)
(* (ip_address, device_id, port) are never written, and every call of      *)
(* send_control_command, get_status or set_device_name opens its own       *)
(* TcpStream and keeps timestamp and session_id in locals.  The calls of   *)
(* the slots interleave at their awaits.                                   *)
(***************************************************************************)
\* The session id a call puts in its command packet: the one its own login
\* returned (control.rs 225-226, 165-166, 117-119), whatever other logins
\* have returned since.
session_of_latest_login(own, latest) == latest
session_for_packet(own, latest) == own

CallFunctions == {"send_control_command", "get_status", "set_device_name"}

\* The replies a call may read to its status or rename packet.
CallReplies == { CommandReply(19, 0, 0, 0), CommandReply(100, 1, 52, 18) }

\* The call in slot i has returned r after its reply or a failure: its
\* stream and its locals are dropped.
Returned(i, r) ==
    [IdleCall EXCEPT !.f = calls[i].f,
                     !.pc = IF r = "Ok" THEN "Done" ELSE "Failed",
                     !.result = r]

\* A caller starts a function in a free slot.
CallStart(i, f) ==
    /\ calls[i].pc \in {"Idle", "Done", "Failed"}
    /\ calls' = [calls EXCEPT ![i] = [IdleCall EXCEPT !.f = f, !.pc = "Connecting"]]
    /\ UNCHANGED <<kvars, cvars, dvars, ovars, pvars, clock, svars, last_session>>

\* TcpStream::connect completes and login takes its timestamp.
CallConnect(i) ==
    /\ calls[i].pc = "Connecting"
    /\ calls' = [calls EXCEPT ![i].pc = "LoginWrite",
                              ![i].timestamp = current_timestamp_hex(clock)]
    /\ UNCHANGED <<kvars, cvars, dvars, ovars, pvars, clock, svars, last_session>>

\* login: the signed login packet is written.
CallLoginWrite(i) ==
    /\ calls[i].pc = "LoginWrite"
    /\ calls' = [calls EXCEPT ![i].pc = "LoginRead"]
    /\ UNCHANGED <<kvars, cvars, dvars, ovars, pvars, clock, svars, last_session>>

\* login: the read returns response.
CallLoginRead(i, response) ==
    /\ calls[i].pc = "LoginRead"
    /\ IF LoginLengthOk(Len(response))
       THEN /\ calls' = [calls EXCEPT ![i].pc = "Sending",
                                      ![i].response = response,
                                      ![i].session_id = session_id_of(response)]
            /\ last_session' = session_id_of(response)
       ELSE /\ calls' = [calls EXCEPT ![i] = Returned(i, ErrLoginTooShort)]
            /\ UNCHANGED last_session
    /\ UNCHANGED <<kvars, cvars, dvars, ovars, pvars, clock, svars>>

\* The command packet is built, signed and written.
CallSend(i, o, name) ==
    /\ calls[i].pc = "Sending"
    /\ LET c == calls[i]
           session_id == session_for_packet(c.session_id, last_session)
           enc == string_to_hexadecimal_device_name(name)
           packet ==
               CASE c.f = "send_control_command" ->
                       build_control_packet(session_id, c.timestamp, DeviceId,
                                            Command(o))
                 [] c.f = "get_status" ->
                       build_get_state_packet(session_id, c.timestamp, DeviceId)
                 [] OTHER ->
                       build_set_name_packet(session_id, c.timestamp, DeviceId,
                                             enc.hex)
       IN  IF c.f = "set_device_name" /\ ~enc.ok
           THEN calls' = [calls EXCEPT ![i] = Returned(i, enc.err)]
           ELSE calls' = [calls EXCEPT
                             ![i].packet = sign_packet(packet),
                             ![i].pc = IF c.f = "send_control_command"
                                       THEN "Done" ELSE "AwaitingResponse",
                             ![i].result = IF c.f = "send_control_command"
                                           THEN "Ok" ELSE "none"]
    /\ UNCHANGED <<kvars, cvars, dvars, ovars, pvars, clock, svars, last_session>>

\* The read of the reply returns response.  get_status returns what it
\* decoded; set_device_name returns at once on a short reply and otherwise
\* goes to sleep for COMMAND_VERIFY_DELAY_MS with its stream still open.
CallReply(i, response) ==
    /\ calls[i].pc = "AwaitingResponse"
    /\ LET short == IF calls[i].f = "get_status"
                    THEN ~StatusOf(response).ok
                    ELSE Len(response) < MIN_RENAME_RESPONSE_LEN
       IN  IF calls[i].f = "set_device_name" /\ ~short
           THEN calls' = [calls EXCEPT ![i].pc = "Sleeping"]
           ELSE calls' = [calls EXCEPT ![i] =
                            Returned(i, IF ~short THEN "Ok"
                                        ELSE IF calls[i].f = "get_status"
                                        THEN ErrNoOrInvalidDevice
                                        ELSE ErrNoResponse)]
    /\ UNCHANGED <<kvars, cvars, dvars, ovars, pvars, clock, svars, last_session>>

\* set_device_name: the sleep after the reply ends and the call returns
\* Ok(()), dropping its stream.
CallSleepElapses(i) ==
    /\ calls[i].pc = "Sleeping"
    /\ calls' = [calls EXCEPT ![i] = Returned(i, "Ok")]
    /\ UNCHANGED <<kvars, cvars, dvars, ovars, pvars, clock, svars, last_session>>

\* A connect, write or read of the call fails, or its timeout fires.
CallFail(i, e) ==
    /\ calls[i].pc \in {"Connecting", "LoginWrite", "LoginRead", "Sending",
                        "AwaitingResponse"}
    /\ e = ErrElapsed =>
          \/ calls[i].pc = "LoginRead"
          \/ calls[i].pc = "Connecting" /\ calls[i].f # "send_control_command"
    /\ calls' = [calls EXCEPT ![i] = Returned(i, e)]
    /\ UNCHANGED <<kvars, cvars, dvars, ovars, pvars, clock, svars, last_session>>

CallStartAny == \E i \in 1..MaxCalls, f \in CallFunctions : CallStart(i, f)
CallConnectAny == \E i \in 1..MaxCalls : CallConnect(i)
CallLoginWriteAny == \E i \in 1..MaxCalls : CallLoginWrite(i)
CallLoginReadAny ==
    \E i \in 1..MaxCalls, response \in LoginResponses : CallLoginRead(i, response)
CallSendAny ==
    \E i \in 1..MaxCalls, name \in {<<80, 108, 117, 103>>, <<65>>} :
        CallSend(i, "turn_on", name)
CallReplyAny == \E i \in 1..MaxCalls, response \in CallReplies : CallReply(i, response)
CallSleepElapsesAny == \E i \in 1..MaxCalls : CallSleepElapses(i)
CallFailAny == \E i \in 1..MaxCalls, e \in {ErrIo, ErrElapsed} : CallFail(i, e)

NextCalls ==
    \/ CallStartAny
    \/ CallConnectAny
    \/ CallLoginWriteAny
    \/ CallLoginReadAny
    \/ CallSendAny
    \/ CallReplyAny
    \/ CallSleepElapsesAny
    \/ CallFailAny

SpecCalls == Init /\ [][NextCalls]_vars

\* The session id field of a command packet: hex characters 16..24.
SessionIn(packet) == Slice(packet, 16, 24)

\* C12: the session id in a status, control or rename packet is the hex of
\* bytes 16..20 of the login response read on the same connection; with
\* several calls in progress no call sends a session id obtained on another
\* connection or by an earlier call.
C12_SessionIdOfOwnLogin ==
    \A i \in 1..MaxCalls :
        calls[i].packet # <<>> =>
            /\ Len(calls[i].response) >= 20
            /\ \A k \in 1..4 :
                  16 * HexVal(SessionIn(calls[i].packet)[2 * k - 1])
                     + HexVal(SessionIn(calls[i].packet)[2 * k])
                  = calls[i].response[16 + k]

\* Two calls in progress with different session ids; the one that logged
\* in first sends after the other's login and still uses its own.
C12_Witness ==
    \E i, j \in 1..MaxCalls :
        /\ i # j
        /\ calls[i].packet # <<>>
        /\ calls[j].pc = "Sending"
        /\ last_session = calls[j].session_id
        /\ calls[j].session_id # calls[i].session_id
        /\ SessionIn(calls[i].packet) = calls[i].session_id

(***************************************************************************)
(* Persisted configuration (config.rs, cache.rs, pairing.rs) and the       *)
(* commands that use it (discovery.rs discover_with_cache, main.rs)        *)
(***************************************************************************)
\* The --cache-timeout the discovery was built with (seconds).
cache_max_age == 1

ErrParse == "serde_json::Error"
ErrNoPairedDevice == "No paired device found with alias"

Ok(value) == [ok |-> TRUE, value |-> value]
Err(error) == [ok |-> FALSE, error |-> error]

\* HashMap::get of a key that is present, on a set of <<key, value>> pairs.
get(map, k) == (CHOOSE e \in map : e[1] = k)[2]

\* for d in devs { map.insert(d.device_id.clone(), d) }
RECURSIVE insert_all(_, _)
insert_all(map, devs) ==
    IF devs = {} THEN map
    ELSE LET d == CHOOSE x \in devs : TRUE
         IN  insert_all(insert(map, d.device_id, d), devs \ {d})

\* u64::saturating_sub
difference_or_max(a, b) == IF a >= b THEN a - b ELSE 2147483647
saturating_sub(a, b) == IF a >= b THEN a - b ELSE 0

\* ConfigManager::load_unified_config: what it returns.
load_unified_config(f) ==
    IF ~f.exists THEN Ok(UnifiedConfigNew)
    ELSE IF ~f.json THEN Err(ErrParse)
    ELSE IF f.config.version # CARGO_PKG_VERSION THEN Ok(UnifiedConfigNew)
    ELSE Ok(f.config)

\* ConfigManager::load_unified_config: the file it leaves.  It only reads;
\* a missing file or one of another version makes it return
\* UnifiedConfig::new() without writing it.
file_created_on_load(f) ==
    IF f.exists /\ (~f.json \/ f.config.version = CARGO_PKG_VERSION)
    THEN f ELSE FileOf(UnifiedConfigNew)
file_after_load(f) == f

\* What the file system answers to fs::write, which opens the file with
\* truncation and then writes the content: both succeed, the open fails, or
\* the open succeeds and the write fails.
WriteOutcomes == {"ok", "open fails", "write fails"}

\* ConfigManager::save_unified_config: fs::write replaces the content; when
\* the open fails the file is left as it was, and when the write fails
\* after the open the file is left truncated (it exists and does not parse).
save_unified_config(f, config, write) ==
    CASE write = "ok" -> [ok |-> TRUE, file |-> FileOf(config)]
      [] write = "open fails" -> [ok |-> FALSE, file |-> f]
      [] OTHER -> [ok |-> FALSE, file |-> Garbage]

\* ConfigManager::load_cache_data / CacheManager::load_cache
load_cache_data(f, now) ==
    LET r == load_unified_config(f)
    IN  IF ~r.ok THEN r
        ELSE Ok(IF r.value.cache.some THEN r.value.cache.value
                ELSE DeviceCacheNew(now))

\* ConfigManager::save_cache_data / CacheManager::save_cache
save_cache_data(f, cache, write) ==
    LET r == load_unified_config(f)
    IN  IF ~r.ok THEN [ok |-> FALSE, file |-> file_after_load(f)]
        ELSE save_unified_config(file_after_load(f),
                 [r.value EXCEPT !.cache = Some(cache)], write)

\* ConfigManager::load_pairing_data / PairingManager::load_pairing
load_pairing_data(f, now) ==
    LET r == load_unified_config(f)
    IN  IF ~r.ok THEN r
        ELSE Ok(IF r.value.pairing.some THEN r.value.pairing.value
                ELSE PairingConfigNew(now))

\* ConfigManager::save_pairing_data / PairingManager::save_pairing
save_pairing_data(f, pairing, write) ==
    LET r == load_unified_config(f)
    IN  IF ~r.ok THEN [ok |-> FALSE, file |-> file_after_load(f)]
        ELSE save_unified_config(file_after_load(f),
                 [r.value EXCEPT !.pairing = Some(pairing)], write)

\* DeviceCache::add_device
add_device(cache, d, now) ==
    [devices |->
        insert(cache.devices, d.device_id,
               [device |-> d,
                last_seen |-> now,
                discovery_count |->
                    IF contains_key(cache.devices, d.device_id)
                    THEN get(cache.devices, d.device_id).discovery_count + 1
                    ELSE 1]),
     last_updated |-> now]

\* for device in &final_devices { cache.add_device(device.clone()) }
RECURSIVE add_devices(_, _, _)
add_devices(cache, devs, now) ==
    IF devs = {} THEN cache
    ELSE LET d == CHOOSE x \in devs : TRUE
         IN  add_devices(add_device(cache, d, now), devs \ {d}, now)

\* DeviceCache::get_fresh_devices: one record per entry that passes the
\* filter, as <<key, record>> (a Vec in values() order).
fresh_entries(cache, max_age_seconds, now) ==
    LET cutoff == saturating_sub(now, max_age_seconds)
    IN  {<<e[1], e[2].device>> : e \in {x \in cache.devices : x[2].last_seen >= cutoff}}

get_fresh_devices(cache, max_age_seconds, now) ==
    values(fresh_entries(cache, max_age_seconds, now))

\* The retain test of remove_old_devices.
newer_than(last_seen, cutoff) == last_seen > cutoff
retained(last_seen, cutoff) == last_seen >= cutoff

\* DeviceCache::remove_old_devices
remove_old_devices(cache, max_age_seconds, now) ==
    LET cutoff == saturating_sub(now, max_age_seconds)
    IN  [devices |-> {e \in cache.devices : retained(e[2].last_seen, cutoff)},
         last_updated |-> now]

\* PairingConfig::get_device_by_alias
get_device_by_alias(pairing, alias) ==
    IF ~contains_key(pairing.aliases, alias) THEN None
    ELSE IF ~contains_key(pairing.devices, get(pairing.aliases, alias)) THEN None
    ELSE Some(get(pairing.devices, get(pairing.aliases, alias)))

\* PairingConfig::update_device_info: the configuration it leaves and
\* whether the device was a paired one.
update_device_info(pairing, d, now) ==
    IF contains_key(pairing.devices, d.device_id)
    THEN [updated |-> TRUE,
          pairing |->
              [pairing EXCEPT
                  !.devices = insert(pairing.devices, d.device_id,
                                     [get(pairing.devices, d.device_id)
                                         EXCEPT !.device = d, !.last_seen = now]),
                  !.last_updated = now]]
    ELSE [updated |-> FALSE, pairing |-> pairing]

\* for device in &final_devices { if pairing.update_device_info(device) {
\* updated = true } }
RECURSIVE update_devices(_, _, _)
update_devices(pairing, devs, now) ==
    IF devs = {} THEN [updated |-> FALSE, pairing |-> pairing]
    ELSE LET d == CHOOSE x \in devs : TRUE
             first == update_device_info(pairing, d, now)
             rest == update_devices(first.pairing, devs \ {d}, now)
         IN  [updated |-> first.updated \/ rest.updated, pairing |-> rest.pairing]

\* discover_with_cache, before the network: the fresh cached records,
\* none when the object does not use the cache (enabled is its use_cache;
\* it has a cache manager exactly when it uses the cache) or when the cache
\* cannot be loaded.
load_fresh(enabled, f, now) ==
    LET r == load_cache_data(f, now)
    IN  IF enabled /\ r.ok THEN get_fresh_devices(r.value, cache_max_age, now)
        ELSE {}

\* discover_with_cache, before the network: the file it leaves.
file_after_load_fresh(enabled, f) == IF enabled THEN file_after_load(f) ELSE f

\* discover_with_cache, after the network: the cached records first, then
\* the discovered ones over them.
merge_cached_last(cached, discovered) ==
    values(insert_all(insert_all({}, discovered), cached))
merge_devices(cached, discovered) ==
    values(insert_all(insert_all({}, cached), discovered))

\* discover_with_cache, the cache update: every returned record is added,
\* entries older than twice the maximum age are dropped, the cache is saved.
update_cache(enabled, f, final, now, write) ==
    LET r == load_cache_data(f, now)
    IN  IF ~enabled THEN f
        ELSE IF ~r.ok THEN file_after_load(f)
        ELSE save_cache_data(file_after_load(f),
                 remove_old_devices(add_devices(r.value, final, now),
                                    cache_max_age * 2, now),
                 write).file

\* discover_with_cache, the pairing update: saved only if one of the
\* returned records is a paired device.
update_pairing(f, final, now, write) ==
    LET r == load_pairing_data(f, now)
    IN  IF ~r.ok THEN file_after_load(f)
        ELSE LET u == update_devices(r.value, final, now)
             IN  IF u.updated
                 THEN save_pairing_data(file_after_load(f), u.pairing, write).file
                 ELSE file_after_load(f)

ErrBothAndAlias ==
    "Cannot specify both IP/device-id and alias. Use either --ip and --device-id, or --alias."
ErrBothRequired == "When using IP/device-id, both --ip and --device-id are required."
ErrNothingGiven ==
    "Must specify either --ip and --device-id, or --alias for a paired device."
ErrMixed ==
    "Cannot mix IP/device-id with alias. Use either --ip and --device-id, or --alias."

\* main.rs resolve_device_info: the match on (ip, device_id, alias), three
\* Options.  --ip and --device-id are returned as given, --alias alone is
\* looked up in the pairing store of file f, every other combination is an
\* error.
resolve_device_info(f, ip, device_id, alias, now) ==
    CASE ip.some /\ device_id.some /\ ~alias.some ->
            Ok([ip_address |-> ip.value, device_id |-> device_id.value])
      [] ~ip.some /\ ~device_id.some /\ alias.some ->
            LET r == load_pairing_data(f, now)
            IN  IF ~r.ok THEN r
                ELSE IF ~get_device_by_alias(r.value, alias.value).some
                THEN Err(ErrNoPairedDevice)
                ELSE LET paired_device == get_device_by_alias(r.value, alias.value).value
                     IN  Ok([ip_address |-> paired_device.device.ip_address,
                             device_id |-> paired_device.device.device_id])
      [] ip.some /\ device_id.some /\ alias.some -> Err(ErrBothAndAlias)
      [] ip.some # device_id.some /\ ~alias.some -> Err(ErrBothRequired)
      [] ~ip.some /\ ~device_id.some /\ ~alias.some -> Err(ErrNothingGiven)
      [] OTHER -> Err(ErrMixed)

\* resolve_device_info: the file it leaves.  Only the arm of --alias alone
\* loads the pairing store.
file_after_resolve(f, ip, device_id, alias) ==
    IF ~ip.some /\ ~device_id.some /\ alias.some THEN file_after_load(f) ELSE f

\* What an earlier run of the program left in the file: the plug 010203 as
\* it last broadcast (a second ago), the plug abcdef last heard three
\* seconds ago, and the plug 010203 paired as "plug".
StoredConfig ==
    LET a == from_discovery_packet(Datagrams[2])
        c == from_discovery_packet(Datagrams[3])
    IN  [cache |-> Some([devices |->
                            {<<a.device_id, [device |-> a,
                                             last_seen |-> BootTime - 1,
                                             discovery_count |-> 1]>>,
                             <<c.device_id, [device |-> c,
                                             last_seen |-> BootTime - 3,
                                             discovery_count |-> 2]>>},
                         last_updated |-> BootTime - 1]),
         pairing |-> Some([devices |->
                              {<<a.device_id, [device |-> a,
                                               alias |-> "plug",
                                               paired_at |-> BootTime - 3,
                                               last_seen |-> BootTime - 3]>>},
                           aliases |-> {<<"plug", a.device_id>>},
                           last_updated |-> BootTime - 3]),
         version |-> CARGO_PKG_VERSION]

\* The file the program finds: none, one it wrote, one an older version of
\* it wrote, one that does not parse.
InitialFiles ==
    {NoFile, FileOf(StoredConfig),
     FileOf([StoredConfig EXCEPT !.version = "older"]), Garbage}

\* The SwitcherDiscovery and the file it finds: one built with use_cache
\* (new(), with_cache_settings(true, 1)) and any of the files, or one built
\* without (without_cache(), with_cache_settings(false, 1)) and the file the
\* program wrote, the only one its pairing update can change.
InitialStores ==
    { [file |-> f, use_cache |-> TRUE] : f \in InitialFiles }
    \cup { [file |-> FileOf(StoredConfig), use_cache |-> FALSE] }

InitStored ==
    /\ InitController /\ InitDiscovery /\ InitPure /\ InitCalls /\ InitObjects
    /\ clock = BootTime
    /\ \E st \in InitialStores : file = st.file /\ use_cache = st.use_cache
    /\ NoCommand

\* The discover command: discover_with_cache loads the fresh cached
\* records and enters discover_network.
DiscoverStart ==
    /\ cmd = "none"
    /\ cmd' = "discover"
    /\ wpc' = "Network"
    /\ before' = file
    /\ all_devices' = load_fresh(use_cache, file, clock)
    /\ file' = file_after_load_fresh(use_cache, file)
    /\ ListenEnter
    /\ UNCHANGED <<kvars, cvars, pvars, clock, nvars, ovars, use_cache, final_devices,
                   wresult>>

\* UdpSocket::bind fails: discover_network returns the error and `?` makes
\* discover_with_cache return it.
DiscoverBindErr ==
    /\ wpc = "Network"
    /\ BindFails
    /\ wpc' = IF AfterBindError = "Failed" THEN "Failed" ELSE wpc
    /\ wresult' = dresult'
    /\ UNCHANGED <<kvars, cvars, pvars, clock, nvars, ovars, file, before, cmd,
                   use_cache, all_devices, final_devices>>

\* set_broadcast fails: the same way out.
DiscoverSetBroadcastErr ==
    /\ wpc = "Network"
    /\ SetBroadcastFails
    /\ wpc' = "Failed"
    /\ wresult' = dresult'
    /\ UNCHANGED <<kvars, cvars, pvars, clock, nvars, ovars, file, before, cmd,
                   use_cache, all_devices, final_devices>>

\* discover_network returns its records: discover_with_cache merges them
\* over the cached ones, updates the cache and the pairing store and
\* returns.  A save that fails is logged and the records are still returned.
DiscoverReturn ==
    \E cache_write, pairing_write \in WriteOutcomes :
        /\ wpc = "Network"
        /\ ListenLeave
        /\ final_devices' = merge_devices(all_devices, found')
        /\ file' = update_pairing(
                       update_cache(use_cache, file, final_devices', clock, cache_write),
                       final_devices', clock, pairing_write)
        /\ wpc' = "Done"
        /\ wresult' = "Ok"
        /\ UNCHANGED <<kvars, cvars, pvars, clock, nvars, ovars, before, cmd, use_cache,
                       all_devices>>

\* The status command: the device is resolved from --ip, --device-id and
\* --alias, a controller is built for the resolved address and device id
\* and get_status is called on it.  An error of the resolution is printed
\* and nothing is connected.
StatusStart ==
    \E ip \in {None, Some(DeviceIp)}, device_id \in {None, Some(DeviceId)},
       alias \in {None, Some("plug")}, quiet \in BOOLEAN :
        LET r == resolve_device_info(file, ip, device_id, alias, clock)
        IN  /\ cmd = "none"
            /\ cmd' = "status"
            /\ before' = file
            /\ file' = file_after_resolve(file, ip, device_id, alias)
            /\ IF r.ok
               THEN /\ wpc' = "Controller"
                    /\ wresult' = "none"
                    /\ controller_ip_address' = r.value.ip_address
                    /\ controller_device_id' = r.value.device_id
                    /\ Invoke("get_status", <<>>, quiet)
               ELSE /\ wpc' = "Failed"
                    /\ wresult' = r.error
                    /\ UNCHANGED <<cvars, kvars>>
            /\ UNCHANGED <<dvars, pvars, clock, nvars, ovars, use_cache, all_devices,
                           final_devices>>

\* ConfigManager::clear_config / CacheManager::clear_cache: the file is
\* removed when it exists (removable is what the file system answers).
clear_config(f, removable) ==
    IF ~f.exists THEN [ok |-> TRUE, file |-> f]
    ELSE IF removable THEN [ok |-> TRUE, file |-> NoFile]
    ELSE [ok |-> FALSE, file |-> f]

\* The clear-cache command: nothing to do without a file; without --force
\* the user is asked (answer is what the prompt gives: a line starting with
\* y, another line, or an error of the flush or of read_line, which `?`
\* returns from main) and may decline; otherwise clear_cache is called and
\* its outcome printed.  The program does nothing else while it waits for
\* the answer.
ClearCache ==
    \E force, removable \in BOOLEAN, answer \in {"y", "n", "error"} :
        LET r == clear_config(file, removable)
        IN  /\ cmd = "none"
            /\ cmd' = "clear-cache"
            /\ before' = file
            /\ IF ~file.exists
               THEN /\ wresult' = "No cache file found"
                    /\ wpc' = "Done"
                    /\ UNCHANGED file
               ELSE IF ~force /\ answer = "error"
               THEN /\ wresult' = ErrIo
                    /\ wpc' = "Failed"
                    /\ UNCHANGED file
               ELSE IF ~force /\ answer = "n"
               THEN /\ wresult' = "Cache clear cancelled"
                    /\ wpc' = "Done"
                    /\ UNCHANGED file
               ELSE /\ wresult' = IF r.ok THEN "Cache cleared successfully"
                                  ELSE "Failed to clear cache"
                    /\ wpc' = "Done"
                    /\ file' = r.file
            /\ UNCHANGED <<kvars, cvars, dvars, pvars, clock, nvars, ovars, use_cache,
                           all_devices, final_devices>>

\* The command's operation has returned, and how.
CommandEnded ==
    \/ wpc \in {"Done", "Failed"}
    \/ wpc = "Controller" /\ pc \in {"Done", "Failed"}

CommandFailed ==
    \/ wpc = "Failed"
    \/ wpc = "Controller" /\ pc = "Failed"

NextStore ==
    \/ DiscoverStart
    \/ DiscoverBindErr
    \/ DiscoverSetBroadcastErr
    \/ BindOkSpawn
    \/ BroadcastAny
    \/ TaskWake
    \/ TaskSuspend
    \/ TaskRecv
    \/ TaskRecvErr
    \/ TaskLock
    \/ TaskInsert
    \/ TaskCancel
    \/ SleepDone
    \/ CallerLock
    \/ DiscoverReturn
    \/ StatusStart
    \/ ClearCache
    \/ ConnectOk
    \/ ConnectErr
    \/ ConnectTimeout
    \/ LoginWrite
    \/ LoginWriteErr
    \/ LoginReadAny
    \/ LoginReadErr
    \/ LoginTimeout
    \/ Send
    \/ SendErr
    \/ StatusReadAny
    \/ ResponseReadErr
    \/ GoSilent
    \/ Tick

SpecStore == InitStored /\ [][NextStore]_vars

\* C11: a command whose operation failed at a protocol step (bind or
\* set_broadcast in discovery; connect, login or a short response in
\* get_status) has written nothing: the persisted configuration equals the
\* one the command found.
C11_FailedOperationWritesNothing ==
    CommandFailed => file = before

\* discover_with_cache loaded fresh records from an existing cache and then
\* failed at bind.
C11_Witness ==
    /\ cmd = "discover"
    /\ wpc = "Failed"
    /\ wresult = ErrBind
    /\ before.exists
    /\ all_devices # {}

\* The cache entries a load of file f gives (none when it does not parse).
CachedIn(f, now) ==
    IF load_cache_data(f, now).ok THEN load_cache_data(f, now).value.devices ELSE {}

\* C31: when discover_with_cache has returned, every cache entry the call
\* found whose device was not heard in the listen window still has the
\* last_seen it had, and the next load returns that device as fresh only
\* while no more than cache_max_age seconds have passed since then.
C31_OnlyHeardDevicesRefreshed ==
    (cmd = "discover" /\ wpc = "Done") =>
        \A e \in CachedIn(before, clock) :
            (\A r \in found : r.device_id # e[1]) =>
                /\ \A e2 \in CachedIn(file, clock) :
                      e2[1] = e[1] => e2[2].last_seen = e[2].last_seen
                /\ (\E d \in load_fresh(TRUE, file, clock) : d.device_id = e[1]) =>
                      clock - e[2].last_seen <= cache_max_age

\* C35: the records discover_with_cache returns hold one record per
\* device_id, for exactly the ids of the fresh cached records and of the
\* records received; every record received is returned, so an id that is
\* in both is returned with the record received, and a cached record is
\* returned only for an id that was not received.
C35_NetworkRecordWins ==
    (cmd = "discover" /\ wpc = "Done") =>
        /\ \A r1 \in final_devices, r2 \in final_devices :
              r1.device_id = r2.device_id => r1 = r2
        /\ {r.device_id : r \in final_devices} =
              {r.device_id : r \in all_devices \cup found}
        /\ found \subseteq final_devices
        /\ \A r \in final_devices \ found :
              /\ r \in all_devices
              /\ \A n \in found : n.device_id # r.device_id

\* The plug 010203 is fresh in the cache under one name and was heard
\* under another; another plug was heard as well.
C35_Witness ==
    /\ cmd = "discover"
    /\ wpc = "Done"
    /\ Cardinality(found) = 2
    /\ Cardinality(final_devices) = 2
    /\ \E c \in all_devices, n \in found :
          /\ c.device_id = n.device_id
          /\ c.name # n.name
          /\ n \in final_devices
          /\ c \notin final_devices

\* The paired devices and the aliases a load of file f gives.
PairedIn(f, now) ==
    IF load_pairing_data(f, now).ok THEN load_pairing_data(f, now).value.devices ELSE {}

AliasesIn(f, now) ==
    IF load_pairing_data(f, now).ok THEN load_pairing_data(f, now).value.aliases ELSE {}

\* C32: after the clear-cache command has cleared, load_pairing still
\* returns every paired device and every alias it returned before.
C32_ClearCacheKeepsPairing ==
    (cmd = "clear-cache" /\ wresult = "Cache cleared successfully") =>
        /\ PairedIn(before, clock) \subseteq PairedIn(file, clock)
        /\ AliasesIn(before, clock) \subseteq AliasesIn(file, clock)

(***************************************************************************)
(* PairingConfig (pairing.rs): calls of its methods on one object          *)
(***************************************************************************)
ErrAliasInUse == "Alias is already in use"
ErrNoDeviceWithAlias == "No device found with alias"

\* HashMap::remove
remove(map, k) == {e \in map : e[1] # k}

\* pair_device refuses an alias that is a key of the aliases map, whichever
\* device it belongs to.
alias_of_another_device(aliases, alias, device_id) ==
    contains_key(aliases, alias) /\ get(aliases, alias) # device_id
alias_in_use(aliases, alias, device_id) == contains_key(aliases, alias)

\* pair_device, the aliases map before the new alias is inserted: the alias
\* of a device that was already paired is removed from it.
aliases_kept(p, device_id) == p.aliases
aliases_without_old(p, device_id) ==
    IF contains_key(p.devices, device_id)
    THEN remove(p.aliases, get(p.devices, device_id).alias)
    ELSE p.aliases

\* PairingConfig::pair_device: what it returns and the object it leaves.
\* now is current_timestamp(), read for paired_at, last_seen and
\* last_updated.
pair_device(p, d, alias, now) ==
    IF alias_in_use(p.aliases, alias, d.device_id)
    THEN [result |-> Err(ErrAliasInUse), pairing |-> p]
    ELSE LET device_id == d.device_id
             aliases == aliases_without_old(p, device_id)
             paired_device == [device |-> d, alias |-> alias,
                               paired_at |-> now, last_seen |-> now]
         IN  [result |-> Ok(<<>>),
              pairing |-> [devices |-> insert(p.devices, device_id, paired_device),
                           aliases |-> insert(aliases, alias, device_id),
                           last_updated |-> now]]

\* unpair_device removes the device the alias stands for from the devices
\* map.
devices_kept(paired_devices, device_id) == paired_devices
devices_after_unpair(paired_devices, device_id) == remove(paired_devices, device_id)

\* PairingConfig::unpair_device
unpair_device(p, alias, now) ==
    IF ~contains_key(p.aliases, alias)
    THEN [result |-> Err(ErrNoDeviceWithAlias), pairing |-> p]
    ELSE [result |-> Ok(<<>>),
          pairing |-> [devices |-> devices_after_unpair(p.devices, get(p.aliases, alias)),
                       aliases |-> remove(p.aliases, alias),
                       last_updated |-> now]]

\* The devices and aliases of the calls: the plug 010203 as it broadcast
\* under two names, and the plug abcdef.
PairDevices == {from_discovery_packet(Datagrams[k]) : k \in 1..3}
Aliases == {"plug", "lamp"}

\* The call made last and the object it found.
LastCall == [fn |-> fn, arg |-> arg, out |-> out, found |-> before_call.object]

PairDevice ==
    \E d \in PairDevices, alias \in Aliases :
        LET r == pair_device(pairing_config, d, alias, clock)
        IN  /\ fn' = "pair_device"
            /\ arg' = [device |-> d, alias |-> alias, now |-> clock]
            /\ out' = r.result
            /\ before_call' = [object |-> pairing_config, previous |-> LastCall]
            /\ pairing_config' = r.pairing
            /\ UNCHANGED <<kvars, cvars, dvars, nvars, svars, clock, argof, device_cache>>

UnpairDevice ==
    \E alias \in Aliases :
        LET r == unpair_device(pairing_config, alias, clock)
        IN  /\ fn' = "unpair_device"
            /\ arg' = [alias |-> alias, now |-> clock]
            /\ out' = r.result
            /\ before_call' = [object |-> pairing_config, previous |-> LastCall]
            /\ pairing_config' = r.pairing
            /\ UNCHANGED <<kvars, cvars, dvars, nvars, svars, clock, argof, device_cache>>

UpdateDeviceInfo ==
    \E d \in PairDevices :
        LET r == update_device_info(pairing_config, d, clock)
        IN  /\ fn' = "update_device_info"
            /\ arg' = [device |-> d, now |-> clock]
            /\ out' = [ok |-> r.updated]
            /\ before_call' = [object |-> pairing_config, previous |-> LastCall]
            /\ pairing_config' = r.pairing
            /\ UNCHANGED <<kvars, cvars, dvars, nvars, svars, clock, argof, device_cache>>

NextPairing ==
    \/ PairDevice
    \/ UnpairDevice
    \/ UpdateDeviceInfo
    \/ Tick

SpecPairing == Init /\ [][NextPairing]_vars

\* C24: pair_device with an alias that is in use, by another device or by
\* the same one, returns an error and leaves devices, aliases and
\* last_updated as they were.
C24_UsedAliasRefused ==
    (fn = "pair_device" /\ contains_key(before_call.object.aliases, arg.alias)) =>
        /\ ~out.ok
        /\ pairing_config = before_call.object

\* The device is paired again under the alias it already has, a second
\* later.
C24_Witness ==
    /\ fn = "pair_device"
    /\ contains_key(before_call.object.aliases, arg.alias)
    /\ get(before_call.object.aliases, arg.alias) = arg.device.device_id
    /\ before_call.object.last_updated < arg.now
    /\ ~out.ok

\* C25: after a successful pair_device(d, a) the alias a resolves to d;
\* after an unpair_device(a) that follows it, a resolves to nothing, neither
\* map keeps an entry for d or for a, and if d was not paired before the
\* pair both maps are what they were before it.
C25_PairThenUnpair ==
    /\ (fn = "pair_device" /\ out.ok) =>
           /\ get_device_by_alias(pairing_config, arg.alias).some
           /\ get_device_by_alias(pairing_config, arg.alias).value.device = arg.device
    /\ (/\ fn = "unpair_device"
        /\ before_call.previous.fn = "pair_device"
        /\ before_call.previous.out.ok
        /\ before_call.previous.arg.alias = arg.alias) =>
           LET d == before_call.previous.arg.device
           IN  /\ out.ok
               /\ ~get_device_by_alias(pairing_config, arg.alias).some
               /\ ~contains_key(pairing_config.devices, d.device_id)
               /\ ~contains_key(pairing_config.aliases, arg.alias)
               /\ \A e \in pairing_config.aliases : e[2] # d.device_id
               /\ \A e \in pairing_config.devices : e[2].alias # arg.alias
               /\ ~contains_key(before_call.previous.found.devices, d.device_id) =>
                      /\ pairing_config.devices = before_call.previous.found.devices
                      /\ pairing_config.aliases = before_call.previous.found.aliases

\* Two devices are paired, the second one is unpaired by the alias it was
\* just given.
C25_Witness ==
    /\ fn = "unpair_device"
    /\ before_call.previous.fn = "pair_device"
    /\ before_call.previous.out.ok
    /\ before_call.previous.arg.alias = arg.alias
    /\ Cardinality(before_call.previous.found.devices) = 1
    /\ Cardinality(before_call.object.devices) = 2
    /\ Cardinality(pairing_config.devices) = 1

\* C34: after any sequence of pair_device, unpair_device and
\* update_device_info calls on a new PairingConfig the two maps correspond
\* one to one: every alias stands for a device whose record carries that
\* alias, every device's alias is a key of aliases standing for it, every
\* record is stored under its own device_id, no key occurs twice; and after
\* a device was paired again under another alias its old alias resolves to
\* nothing.
C34_AliasesMatchDevices ==
    /\ \A a \in pairing_config.aliases :
          \E d \in pairing_config.devices : d[1] = a[2] /\ d[2].alias = a[1]
    /\ \A d \in pairing_config.devices :
          /\ <<d[2].alias, d[1]>> \in pairing_config.aliases
          /\ d[2].device.device_id = d[1]
    /\ \A a1 \in pairing_config.aliases, a2 \in pairing_config.aliases :
          a1[1] = a2[1] => a1 = a2
    /\ \A d1 \in pairing_config.devices, d2 \in pairing_config.devices :
          d1[1] = d2[1] => d1 = d2
    /\ (/\ fn = "pair_device"
        /\ out.ok
        /\ contains_key(before_call.object.devices, arg.device.device_id)) =>
          LET old == get(before_call.object.devices, arg.device.device_id).alias
          IN  /\ old # arg.alias
              /\ ~get_device_by_alias(pairing_config, old).some
              /\ get_device_by_alias(pairing_config, arg.alias).value.device = arg.device

\* The only paired device is paired again under the other alias.
C34_Witness ==
    /\ fn = "pair_device"
    /\ out.ok
    /\ contains_key(before_call.object.devices, arg.device.device_id)
    /\ Cardinality(before_call.object.aliases) = 1
    /\ Cardinality(pairing_config.aliases) = 1
    /\ pairing_config.aliases # before_call.object.aliases

(***************************************************************************)
(* DeviceCache (cache.rs): calls of its methods on one object              *)
(***************************************************************************)
\* Sightings of one device the cache counts.
MaxSightings == 2

\* The max_age_seconds of the calls; the last one is more than the clock
\* reads.
MaxAges == {0, 1, 2, BootTime + 10}

AddDevice ==
    \E d \in PairDevices :
        /\ contains_key(device_cache.devices, d.device_id) =>
               get(device_cache.devices, d.device_id).discovery_count < MaxSightings
        /\ fn' = "add_device"
        /\ arg' = [device |-> d, now |-> clock]
        /\ out' = <<>>
        /\ before_call' = [object |-> device_cache,
                           previous |-> [fn |-> fn, arg |-> arg]]
        /\ device_cache' = add_device(device_cache, d, clock)
        /\ UNCHANGED <<kvars, cvars, dvars, nvars, svars, clock, argof, pairing_config>>

GetFreshDevices ==
    \E max_age_seconds \in MaxAges :
        /\ fn' = "get_fresh_devices"
        /\ arg' = [max_age_seconds |-> max_age_seconds, now |-> clock]
        /\ out' = fresh_entries(device_cache, max_age_seconds, clock)
        /\ before_call' = [object |-> device_cache,
                           previous |-> [fn |-> fn, arg |-> arg]]
        /\ UNCHANGED <<kvars, cvars, dvars, nvars, svars, clock, argof, pairing_config,
                       device_cache>>

RemoveOldDevices ==
    \E max_age_seconds \in MaxAges :
        /\ fn' = "remove_old_devices"
        /\ arg' = [max_age_seconds |-> max_age_seconds, now |-> clock]
        /\ out' = <<>>
        /\ before_call' = [object |-> device_cache,
                           previous |-> [fn |-> fn, arg |-> arg]]
        /\ device_cache' = remove_old_devices(device_cache, max_age_seconds, clock)
        /\ UNCHANGED <<kvars, cvars, dvars, nvars, svars, clock, argof, pairing_config>>

NextCache ==
    \/ AddDevice
    \/ GetFreshDevices
    \/ RemoveOldDevices
    \/ Tick

SpecCache == Init /\ [][NextCache]_vars

\* The entries of a devices map seen within max_age seconds before now, the
\* subtraction saturating at 0.
SeenSince(stored, max_age, now) ==
    {e \in stored : max_age > now \/ e[2].last_seen >= now - max_age}

\* C26: get_fresh_devices(max_age) returns exactly the cached devices whose
\* last_seen >= now - max_age (saturating at 0), one record per device_id,
\* and does not modify the cache.
C26_FreshDevices ==
    fn = "get_fresh_devices" =>
        LET fresh == SeenSince(before_call.object.devices, arg.max_age_seconds, arg.now)
        IN  /\ values(out) = {e[2].device : e \in fresh}
            /\ Cardinality(out) = Cardinality(fresh)
            /\ \A r \in out : Cardinality({q \in out : q[2].device_id = r[2].device_id}) = 1
            /\ device_cache = before_call.object

\* Two devices are cached; the one seen in the second of the call is
\* returned for max_age 0, the one seen a second earlier is not.
C26_Witness ==
    /\ fn = "get_fresh_devices"
    /\ arg.max_age_seconds = 0
    /\ Cardinality(device_cache.devices) = 2
    /\ Cardinality(out) = 1
    /\ \E e \in device_cache.devices :
          /\ e[2].last_seen = arg.now
          /\ e[2].device \in values(out)

\* C27: remove_old_devices(max_age) removes exactly the entries whose
\* last_seen < now - max_age and leaves every other entry as it was, so a
\* get_fresh_devices(max_age) called right after it (the clock reading the
\* same second) returns every device still stored.
C27_RemoveOldDevices ==
    /\ fn = "remove_old_devices" =>
           device_cache.devices =
               SeenSince(before_call.object.devices, arg.max_age_seconds, arg.now)
    /\ (/\ fn = "get_fresh_devices"
        /\ before_call.previous.fn = "remove_old_devices"
        /\ before_call.previous.arg = arg) =>
           values(out) = {e[2].device : e \in device_cache.devices}

\* One of two cached devices was removed as too old, the other one, seen
\* exactly max_age seconds ago, was kept.
C27_Witness ==
    /\ fn = "remove_old_devices"
    /\ Cardinality(before_call.object.devices) = 2
    /\ Cardinality(device_cache.devices) = 1
    /\ \E e \in device_cache.devices :
          e[2].last_seen = arg.now - arg.max_age_seconds

(***************************************************************************)
(* ConfigManager (config.rs): saves of one section into the file           *)
(***************************************************************************)
\* save_cache_data is called with a cache that was loaded (or made new) and
\* had a device added; the file is any of the initial files or what an
\* earlier save left.
SaveCacheData ==
    \E d \in PairDevices, write \in WriteOutcomes :
        LET loaded == load_cache_data(file, clock)
            cache == add_device(IF loaded.ok THEN loaded.value ELSE DeviceCacheNew(clock),
                                d, clock)
            r == save_cache_data(file, cache, write)
        IN  /\ \A e \in cache.devices : e[2].discovery_count <= MaxSightings
            /\ fn' = "save_cache_data"
            /\ arg' = [section |-> cache, write |-> write]
            /\ out' = r.ok
            /\ before' = file
            /\ file' = r.file
            /\ UNCHANGED <<kvars, cvars, dvars, nvars, ovars, clock, argof, cmd, wpc,
                           use_cache, all_devices, final_devices, wresult>>

\* save_pairing_data is called with a pairing configuration that was loaded
\* (or made new) and had a device paired.
SavePairingData ==
    \E d \in PairDevices, alias \in Aliases, write \in WriteOutcomes :
        LET loaded == load_pairing_data(file, clock)
            pairing == pair_device(IF loaded.ok THEN loaded.value
                                   ELSE PairingConfigNew(clock),
                                   d, alias, clock).pairing
            r == save_pairing_data(file, pairing, write)
        IN  /\ fn' = "save_pairing_data"
            /\ arg' = [section |-> pairing, write |-> write]
            /\ out' = r.ok
            /\ before' = file
            /\ file' = r.file
            /\ UNCHANGED <<kvars, cvars, dvars, nvars, ovars, clock, argof, cmd, wpc,
                           use_cache, all_devices, final_devices, wresult>>

NextConfig ==
    \/ SaveCacheData
    \/ SavePairingData
    \/ Tick

\* The saves start from any of the initial files.
InitConfig ==
    /\ InitStored
    /\ use_cache

SpecConfig == InitConfig /\ [][NextConfig]_vars

\* C33: after save_cache_data the pairing section of the file is the one
\* the file held before the save, and after save_pairing_data the cache
\* section is, whatever the file held (no file, a file of this version, a
\* file of another version, a file that does not parse).
C33_SaveKeepsOtherSection ==
    /\ fn = "save_cache_data" => file.config.pairing = before.config.pairing
    /\ fn = "save_pairing_data" => file.config.cache = before.config.cache

====
